---- MODULE Spec2Model ----
(***************************************************************************)
(* A model of the rush container reactor (src/rush/src/container):        *)
(* the dev supervisor loop of ContainerReactor::launch, the image tasks    *)
(* spawned by DockerImage::launch, and the pure helpers they use; of       *)
(* ContainerReactor::from_product_dir with main's redirect parsing; of the *)
(* DockerCrossCompileGuard (src/rush/src/utils.rs); and of                 *)
(* SecretsDefinitions::populate (src/rush/src/vault).                      *)
(*                                                                         *)
(* Images are named by their position in ContainerReactor.images (the      *)
(* stack-spec insertion order), 1..n.                                      *)
(***************************************************************************)
EXTENDS Integers, Sequences, FiniteSets, TLC

VARIABLES
    \* ---- DockerImage fields (docker.rs:31-57), one entry per image
    image_name,            \* image -> the name it is keyed by in the dependency graph
    depends_on,            \* image -> sequence of image names
    dev_ignore_image,      \* image -> BOOLEAN
    should_rebuild,        \* image -> BOOLEAN
    was_recently_rebuild,  \* image -> BOOLEAN
    \* ---- ContainerReactor fields and the locals of launch (container_reactor.rs:33-52)
    pc,                    \* where ContainerReactor::launch stands, "panicked" after a panic
    break_type,            \* BreakType of launch
    stopping,              \* local of monitor_and_handle_events
    deadline,              \* stop_time.elapsed() >= 5 s
    longest_paths,         \* result of prepare_for_launch
    statuses,              \* launched image -> Status
    statuses_receivers,    \* launched image -> statuses sent and not yet drained
    handles,               \* images with a JoinHandle in self.handles
    result,                \* what launch returned: "none", "Ok", "Err"
    \* ---- the world outside the Reactor
    task,                  \* image -> state of its latest image task
    term_pending,          \* image -> terminate messages its task has not read
    container,             \* image -> whether its docker container is running
    has_output,            \* image -> whether a line of its child's stdout or stderr
                           \* has been read by its latest task
    network,               \* what delete_network found: "unknown", "exists", "missing"
    \* ---- history of the current launch call
    cycle,                 \* supervisor cycles started so far (saturating)
    marked,                \* images with should_rebuild when the cycle started
    cleaned,               \* images kill_and_clean(false) has cleaned this cycle
    build_log,             \* <<image, ok>> for every Image.build run this cycle
    started,               \* images launched this cycle, in start order
    forced,                \* kill_and_clean(true) has run in this cycle
    interrupted,           \* where an interrupt was handled: "no", "build", "monitor"
    second_interrupt,      \* an interrupt after that of the monitor phase:
                           \* "none", "handled", "unheard"
    awaiting_launch,       \* images built successfully, not yet seen by launch_images
    net_cmds,              \* docker network commands issued so far
    \* ---- inputs of the pure-function specifications
    dependency_graph,      \* image name -> sequence of image names
    \* ---- the process environment and the DockerCrossCompileGuards (utils.rs:17-94)
    env,                   \* CROSS_CONTAINER_OPTS and DOCKER_DEFAULT_PLATFORM
    guards,                \* holder -> the fields of its guard, or where it stands
    env_before,            \* env before the first guard was created
    \* ---- ContainerReactor::from_product_dir (container_reactor.rs:159-340)
    start_port,            \* Config.start_port
    stack_config,          \* stack.spec.yaml: the component specs, in insertion order
    redirect_args,         \* the values of --redirect, as token sequences
    redirected_components, \* component name -> <<host, port>>
    next_port,             \* the local next_port
    images,                \* the local images
    services,              \* the ServiceSpecs, in image order
    construct_pc,          \* "none", "main", "from_product_dir", "images", "done", "panicked"
    \* ---- SecretsDefinitions::populate (secrets_definitions.rs:476-604)
    definitions,           \* SecretsDefinitions.components: component -> name -> method
    vault,                 \* the vault: component -> name -> value
    vault_before,          \* the vault when populate was called
    existing_secrets,      \* the local existing_secrets
    store,                 \* the local SecretStore: component -> ComponentSecretSet
    todo,                  \* the <<component, secret>> rounds of the loops still to run
    answers,               \* <<component, secret>> -> the answer to the override question
    written,               \* the components the last loop has written
    populate_pc,           \* "none", "start", "collect", "resolve", "write", "Ok"
    \* ---- SecretsDefinitions::validate_vault (secrets_definitions.rs:127-200)
    all_valid,             \* the local all_valid
    vault_secrets,         \* the local vault_secrets of the component at hand
    unvisited,             \* the components the outer loop has not reached
    unchecked,             \* the secrets of the component at hand still to check
    component_at_hand,     \* the outer loop's component_name
    validate_pc,           \* "none", "components", "secrets", "Ok", "Err"
    \* ---- the Vault implementations (file_vault.rs, dotenv_vault.rs, one_password.rs)
    backend,               \* "none", "file", "dotenv", "1password"
    files,                 \* FileVault: path of <env>.json -> component -> secrets
    env_files,             \* DotenvVault: path of .env.secrets -> its lines
    op_items,              \* 1Password: <<vault, item title>> -> field label -> value
    last_set,              \* <<product, component, environment>> -> the map of the last
                           \* set that no remove followed
    last_get,              \* the last get: its arguments and its result
    \* ---- PathMatcher (path_matcher.rs)
    gitignore,             \* the lines of the .gitignore files, parents first
    match_patterns,        \* PathMatcher.match_patterns
    queried,               \* path -> is_dir of the path and the result of matches
    matcher_pc,            \* "none", "start", "ready"
    \* ---- build_manifests (container_reactor.rs, cluster/k8s.rs)
    k8s_encoder,           \* "none", "noop", "sealed"
    manifest_components,   \* K8ClusterManifests.components
    output_dirs,           \* the directories below the output directory
    output_files,          \* <<directory, file>> below the output directory -> content
    output_before,         \* the files build_manifests found when it was called
    component_cursor,      \* how many components the loop has passed
    manifests_pc,          \* "none", "idle", "rendering", "returned", "panic"
    \* ---- ComponentBuildSpec::from_yaml (builder/spec.rs)
    active_environment,    \* the active environment, "" when none is modelled
    yaml_section,          \* the component entry: key -> string value
    component_spec,        \* the ComponentBuildSpec, once parsed
    from_yaml_pc,          \* "none", "start", "parsed", "panic"
    \* ---- test_if_siginificant_change (container_reactor.rs, docker.rs)
    change_images,         \* the images: their spec, Dockerfile and should_rebuild
    pending_changes,       \* ContainerReactor.changed_files
    tested_files,          \* the clone that the last test looked at
    significant_change,    \* what the last test returned, None before it
    change_pc,             \* "none", "watching"
    existing_files,        \* the regular files below the product directory
    watch_rx               \* the paths of the events in the watcher's channel

image_vars == <<image_name, depends_on, dev_ignore_image, should_rebuild, was_recently_rebuild>>
reactor_vars == <<pc, break_type, stopping, deadline, longest_paths, statuses,
                  statuses_receivers, handles, result>>
world_vars == <<task, term_pending, container, has_output, network>>
history_vars == <<cycle, marked, cleaned, build_log, started, forced, interrupted,
                  second_interrupt,
                  awaiting_launch, net_cmds>>
guard_vars == <<env, guards, env_before>>
\* what the dev loop and the dependency graph leave alone
construct_vars == <<start_port, stack_config, redirect_args, redirected_components,
                    next_port, images, services, construct_pc>>
populate_vars == <<definitions, vault, vault_before, existing_secrets, store, todo,
                   answers, written, populate_pc>>
validate_vars == <<all_valid, vault_secrets, unvisited, unchecked, component_at_hand,
                   validate_pc>>
\* the variables of the specifications further down
store_vars == <<backend, files, env_files, op_items, last_set, last_get>>
matcher_vars == <<gitignore, match_patterns, queried, matcher_pc>>
manifest_vars == <<k8s_encoder, manifest_components, output_dirs, output_files,
                   output_before, component_cursor, manifests_pc>>
yaml_vars == <<active_environment, yaml_section, component_spec, from_yaml_pc>>
change_vars == <<change_images, pending_changes, tested_files, significant_change,
                existing_files, watch_rx,
                 change_pc>>
later_vars == <<validate_vars, store_vars, matcher_vars, manifest_vars, yaml_vars,
                change_vars>>
other_vars == <<guard_vars, construct_vars, populate_vars, later_vars>>
\* what validate_vault, the Vault implementations, the PathMatcher,
\* build_manifests, from_yaml and test_if_siginificant_change leave alone
validate_frame ==
    <<image_vars, reactor_vars, world_vars, history_vars, dependency_graph,
      guard_vars, construct_vars, populate_vars, store_vars, matcher_vars,
      manifest_vars, yaml_vars, change_vars>>
store_frame ==
    <<image_vars, reactor_vars, world_vars, history_vars, dependency_graph,
      guard_vars, construct_vars, populate_vars, validate_vars, matcher_vars,
      manifest_vars, yaml_vars, change_vars>>
matcher_frame ==
    <<image_vars, reactor_vars, world_vars, history_vars, dependency_graph,
      guard_vars, construct_vars, populate_vars, validate_vars, store_vars,
      manifest_vars, yaml_vars, change_vars>>
manifest_frame ==
    <<image_vars, reactor_vars, world_vars, history_vars, dependency_graph,
      guard_vars, construct_vars, populate_vars, validate_vars, store_vars,
      matcher_vars, yaml_vars, change_vars>>
yaml_frame ==
    <<image_vars, reactor_vars, world_vars, history_vars, dependency_graph,
      guard_vars, construct_vars, populate_vars, validate_vars, store_vars,
      matcher_vars, manifest_vars, change_vars>>
change_frame ==
    <<image_vars, reactor_vars, world_vars, history_vars, dependency_graph,
      guard_vars, construct_vars, populate_vars, validate_vars, store_vars,
      matcher_vars, manifest_vars, yaml_vars>>

base_vars == <<image_vars, reactor_vars, world_vars, history_vars, dependency_graph>>
vars == <<image_vars, reactor_vars, world_vars, history_vars, dependency_graph,
          other_vars>>

----------------------------------------------------------------------------
(* Bounds *)

\* supervisor cycles counted by the history counter before it saturates
MaxCycles == 2
\* images of the stack in the build and the launch-order specifications
NumImages == 3
\* images in the dependency graphs of the longest-path specification
NumNodes == 5
\* dependencies one image may declare in the longest-path specification
MaxDeps == 2

----------------------------------------------------------------------------
(* Helpers *)

Max(a, b) == IF a >= b THEN a ELSE b

Range(s) == {s[k] : k \in DOMAIN s}

Last(s) == s[Len(s)]

\* the empty map
NoMap == <<>>

ImageIds == DOMAIN dev_ignore_image

----------------------------------------------------------------------------
(* compute_longest_paths: for every image, a depth-first walk from the image *)
(* with an explicit stack of (name, path length) and ONE visited set per walk *)

\* the entries pushed for `deps`, in Vec order, skipping visited names
RECURSIVE PushDeps(_, _, _)
PushDeps(deps, visited, path_len) ==
    IF deps = <<>> THEN <<>>
    ELSE LET rest == PushDeps(Tail(deps), visited, path_len)
         IN IF Head(deps) \in visited THEN rest
            ELSE <<<<Head(deps), path_len + 1>>>> \o rest

\* the while-let loop: pop, mark visited, raise max_length, push unvisited deps
RECURSIVE WalkStack(_, _, _, _)
WalkStack(graph, stack, visited, max_length) ==
    IF stack = <<>> THEN max_length
    ELSE LET current  == Last(stack)[1]
             path_len == Last(stack)[2]
             popped   == SubSeq(stack, 1, Len(stack) - 1)
             visited2 == visited \cup {current}
             deps     == IF current \in DOMAIN graph THEN graph[current] ELSE <<>>
         IN WalkStack(graph,
                      popped \o PushDeps(deps, visited2, path_len),
                      visited2,
                      Max(max_length, path_len))

compute_longest_paths(graph) ==
    [name \in DOMAIN graph |-> WalkStack(graph, <<<<name, 1>>>>, {}, 1)]

----------------------------------------------------------------------------
(* DockerImage and ContainerReactor helpers *)

\* Status (status.rs); the exit code of Finished(code) is not modelled
Statuses == {"Awaiting", "InProgress", "StartupCompleted", "Terminate", "Finished"}

\* a task reads its terminate receiver at most twice: in the select of
\* docker.rs:523 and in the try_recv of docker.rs:567
MaxTerminateReads == 2

\* the watcher reports paths; path p > 0 lies in the build context of image p
\* (and of no other image), path 0 lies in no image's context and matches no
\* watch pattern. test_if_files_changed hands over the paths reported since
\* it was last called: they are an input of every call.
OutsidePath == 0

Paths == {OutsidePath} \cup ImageIds

is_any_file_in_context(i, file_paths) == i \in file_paths

\* status_sender.send: lost when the Reactor has dropped the receiver
Send(receivers, i, sent) ==
    IF i \in DOMAIN receivers
    THEN [receivers EXCEPT ![i] = @ \o sent]
    ELSE receivers

\* terminate_sender.send(()): every task that still holds a receiver gets it
Broadcast(pending) ==
    [i \in DOMAIN pending |->
        IF task[i] \in {"none", "returned"} THEN pending[i]
        ELSE IF pending[i] < MaxTerminateReads THEN pending[i] + 1
        ELSE pending[i]]

\* update_image_statuses: drain every receiver; the last status drained stays
update_image_statuses(sts, receivers) ==
    [i \in DOMAIN sts |->
        IF i \in DOMAIN receivers /\ receivers[i] # <<>>
        THEN Last(receivers[i]) ELSE sts[i]]

Drained(receivers) == [i \in DOMAIN receivers |-> <<>>]

AllFinished(sts) == \A i \in DOMAIN sts : sts[i] = "Finished"

AnyFinished(sts) == \E i \in DOMAIN sts : sts[i] = "Finished"

\* the images kill_and_clean(force_all) calls image.kill_and_clean() on
KillAndCleanTargets(force_all, rebuild) ==
    {i \in DOMAIN rebuild : force_all \/ rebuild[i]}

\* DockerImage::kill_and_clean: docker kill, then docker rm -f
KillAndCleanContainers(targets) ==
    [i \in DOMAIN container |-> IF i \in targets THEN FALSE ELSE container[i]]

\* kill_all_images: docker kill of every running container, no rm
KillAllContainers == [i \in DOMAIN container |-> FALSE]

\* a variant of AffectedImages: any reported change affects every image that
\* is not ignored
AffectedImagesAnyChange(changed_files) ==
    {i \in ImageIds : ~dev_ignore_image[i] /\ changed_files # {}}

\* test_if_siginificant_change: the images it marks for rebuild
AffectedImages(changed_files) ==
    {i \in ImageIds : ~dev_ignore_image[i] /\ is_any_file_in_context(i, changed_files)}

MarkRebuild(affected) ==
    [i \in ImageIds |-> IF i \in affected THEN TRUE ELSE should_rebuild[i]]

\* a variant of BuildFrom: a failing Image.build does not end the build
RECURSIVE BuildKeepGoing(_, _, _)
BuildKeepGoing(i, fail, st) ==
    IF i > Len(st.sr) THEN st
    ELSE LET reset == [st EXCEPT !.wrr[i] = FALSE]
             begun == [reset EXCEPT !.wrr[i] = TRUE]
         IN IF dev_ignore_image[i] \/ ~st.sr[i]
            THEN BuildKeepGoing(i + 1, fail, reset)
            ELSE IF i # fail
                 THEN BuildKeepGoing(i + 1, fail,
                                     [begun EXCEPT !.sr[i] = FALSE,
                                                   !.log = Append(@, <<i, TRUE>>)])
                 ELSE BuildKeepGoing(i + 1, fail,
                                     [begun EXCEPT !.log = Append(@, <<i, FALSE>>),
                                                   !.err = TRUE])

\* ContainerReactor::build, from image i on. `fail` is the image whose
\* Image.build returns Err (0: none does). st = [sr, wrr, log, err].
RECURSIVE BuildFrom(_, _, _)
BuildFrom(i, fail, st) ==
    IF i > Len(st.sr) THEN st
    ELSE LET reset == [st EXCEPT !.wrr[i] = FALSE]
             begun == [reset EXCEPT !.wrr[i] = TRUE]
         IN IF dev_ignore_image[i] THEN BuildFrom(i + 1, fail, reset)
            ELSE IF ~st.sr[i] THEN BuildFrom(i + 1, fail, reset)
            ELSE IF i # fail
                 THEN BuildFrom(i + 1, fail,
                                [begun EXCEPT !.sr[i] = FALSE,
                                              !.log = Append(@, <<i, TRUE>>)])
                 ELSE [begun EXCEPT !.log = Append(@, <<i, FALSE>>), !.err = TRUE]

BuildResult(fail) ==
    BuildFrom(1, fail, [sr |-> should_rebuild, wrr |-> was_recently_rebuild,
                        log |-> <<>>, err |-> FALSE])

\* Names. Component i of the stack is referred to as i in a depends_on list
\* (from_docker_spec turns the entry into "<product>-<component>"). An image
\* built from the repository is itself named "<product>-<component>": i. A
\* PureDockerImage is named after the registry image it runs, the part of
\* `image:` before the colon, which is no "<product>-<component>": -i here.
ComponentImageName(i) == i

RegistryImageName(i) == 0 - i

\* prepare_for_launch: the dependency graph, image_name() -> depends_on(),
\* collected into a HashMap
DependencyGraphOf(names, deps) ==
    [name \in Range(names) |-> deps[CHOOSE i \in DOMAIN names : names[i] = name]]

\* launch_images: the jobs (priority, id), in enumeration order; the priority
\* is longest_paths.get(image.image_name()), 0 when there is none
Jobs(paths, names) ==
    [k \in DOMAIN names |->
        <<IF names[k] \in DOMAIN paths THEN paths[names[k]] ELSE 0, k>>]

\* one step of the stable sort: `job` goes behind every job of priority <= its own
RECURSIVE InsertJob(_, _)
InsertJob(sorted, job) ==
    IF sorted = <<>> THEN <<job>>
    ELSE IF Last(sorted)[1] <= job[1] THEN Append(sorted, job)
    ELSE Append(InsertJob(SubSeq(sorted, 1, Len(sorted) - 1), job), Last(sorted))

\* jobs.sort_by(|a, b| a.0.cmp(&b.0)): a stable sort on the priority
RECURSIVE SortJobs(_)
SortJobs(jobs) ==
    IF jobs = <<>> THEN <<>>
    ELSE InsertJob(SortJobs(SubSeq(jobs, 1, Len(jobs) - 1)), Last(jobs))

\* the images launch_images starts, in start order
LaunchOrder(paths) ==
    LET sorted == SortJobs(Jobs(paths, image_name))
        ids    == [k \in DOMAIN sorted |-> sorted[k][2]]
    IN SelectSeq(ids, LAMBDA i : ~dev_ignore_image[i] /\ was_recently_rebuild[i])

----------------------------------------------------------------------------
(* ContainerReactor::from_product_dir and the redirect parsing of main *)

\* Option<T>: None is the empty set, Some(v) is {v}
OptionNone == {}
Some(v) == {v}
Unwrap(o) == CHOOSE v \in o : TRUE

\* the largest u16
U16Max == 65535

\* str::parse::<u16> on the strings that occur: Some(n), or None for Err
ParseU16(str) ==
    CASE str = "3000" -> Some(3000)
      [] str = "4000" -> Some(4000)
      [] str = "8080" -> Some(8080)
      [] str = "9090" -> Some(9090)
      [] OTHER -> OptionNone

\* str::split on a separator token: the parts between the separators
RECURSIVE SplitFrom(_, _, _, _)
SplitFrom(tokens, sep, k, part) ==
    IF k > Len(tokens) THEN <<part>>
    ELSE IF tokens[k] = sep
         THEN <<part>> \o SplitFrom(tokens, sep, k + 1, <<>>)
         ELSE SplitFrom(tokens, sep, k + 1, Append(part, tokens[k]))

Split(tokens, sep) == SplitFrom(tokens, sep, 1, <<>>)

\* the text of a part: its only token, or a text that is no host, port or
\* component
Text(part) == IF Len(part) = 1 THEN part[1] ELSE "?"

\* main's filter_map closure on one --redirect value: Some(<<component, <<host, port>>>>)
\* or None
ParseRedirect(value) ==
    LET parts == Split(value, "@")
    IN IF Len(parts) # 2 THEN OptionNone
       ELSE LET host_port == Split(parts[2], ":")
            IN IF Len(host_port) # 2 THEN OptionNone
               ELSE LET h    == Text(host_port[1])
                        host == IF h = "localhost" \/ h = "127.0.0.1"
                                THEN "host.docker.internal" ELSE h
                        port == ParseU16(Text(host_port[2]))
                    IN IF port = OptionNone THEN OptionNone
                       ELSE Some(<<Text(parts[1]), <<host, Unwrap(port)>>>>)

\* main's collect into the HashMap (the values here name distinct components)
RedirectedComponents(args) ==
    LET parsed == UNION {ParseRedirect(value) : value \in args}
    IN [c \in {e[1] : e \in parsed} |-> (CHOOSE e \in parsed : e[1] = c)[2]]

\* the build types that carry a dockerfile_path in from_docker_spec
HasDockerfile(build_type) ==
    build_type \in {"TrunkWasm", "DixiousWasm", "RustBinary", "Book", "Zola",
                    "Script", "Ingress"}

\* a panic instead of a value
Panic == [panic |-> TRUE]

\* DockerImage::from_docker_spec: the image of a component spec, or a panic
\* where the first EXPOSE line is no u16
from_docker_spec(spec) ==
    LET read    == HasDockerfile(spec.build_type)
        exposes == IF read THEN spec.exposes ELSE <<>>
        first   == IF exposes = <<>> THEN OptionNone ELSE ParseU16(exposes[1])
    IN IF exposes # <<>> /\ first = OptionNone THEN Panic
       ELSE [panic |-> FALSE,
             image |->
               [component_name |-> spec.component_name,
                build_type |-> spec.build_type,
                exposes |-> exposes,
                port |-> IF spec.port # OptionNone THEN spec.port ELSE first,
                target_port |-> IF spec.target_port # OptionNone
                                THEN spec.target_port ELSE first,
                dev_ignore_image |-> FALSE]]

\* PushImage without the set_ignore_in_devmode of a redirected component
PushImageNoIgnore(imgs, np, spec, redirects, wrap) ==
    LET made == from_docker_spec(spec)
    IN IF made.panic THEN Panic
       ELSE LET image  == made.image
                assign == spec.build_type # "PureDockerImage" /\ spec.port = OptionNone
                ported == IF assign THEN [image EXCEPT !.port = Some(np)] ELSE image
            IN IF assign /\ np = U16Max /\ ~wrap THEN Panic
               ELSE [panic |-> FALSE,
                     images |-> Append(imgs, ported),
                     next_port |-> IF assign THEN (np + 1) % (U16Max + 1) ELSE np]

\* PushImage with a counter that also advances past an image with an explicit
\* port
PushImageCountsAll(imgs, np, spec, redirects, wrap) ==
    LET made == from_docker_spec(spec)
    IN IF made.panic THEN Panic
       ELSE LET image  == made.image
                built  == spec.build_type # "PureDockerImage"
                assign == built /\ spec.port = OptionNone
                ported == IF assign THEN [image EXCEPT !.port = Some(np)] ELSE image
                final  == [ported EXCEPT !.dev_ignore_image =
                                            spec.component_name \in DOMAIN redirects]
            IN IF built /\ np = U16Max /\ ~wrap THEN Panic
               ELSE [panic |-> FALSE,
                     images |-> Append(imgs, final),
                     next_port |-> IF built THEN (np + 1) % (U16Max + 1) ELSE np]

\* one round of from_product_dir's loop over the stack config: the state
\* images and next_port after the component spec, or a panic.  wrap tells
\* whether the build wraps on integer overflow (release) or panics (debug).
PushImage(imgs, np, spec, redirects, wrap) ==
    LET made == from_docker_spec(spec)
    IN IF made.panic THEN Panic
       ELSE LET image  == made.image
                assign == spec.build_type # "PureDockerImage" /\ spec.port = OptionNone
                ported == IF assign THEN [image EXCEPT !.port = Some(np)] ELSE image
                final  == [ported EXCEPT !.dev_ignore_image =
                                            spec.component_name \in DOMAIN redirects]
            IN IF assign /\ np = U16Max /\ ~wrap THEN Panic
               ELSE [panic |-> FALSE,
                     images |-> Append(imgs, final),
                     next_port |-> IF assign THEN (np + 1) % (U16Max + 1) ELSE np]

\* from_product_dir's service list
RECURSIVE ServiceList(_, _, _)
ServiceList(imgs, redirects, k) ==
    IF k > Len(imgs) THEN <<>>
    ELSE LET image == imgs[k]
             name  == image.component_name
             rest  == ServiceList(imgs, redirects, k + 1)
         IN IF image.port = OptionNone \/ image.target_port = OptionNone THEN rest
            ELSE <<[name |-> name,
                    host |-> IF name \in DOMAIN redirects THEN redirects[name][1]
                             ELSE name,
                    port |-> Unwrap(image.port),
                    target_port |-> IF name \in DOMAIN redirects
                                    THEN redirects[name][2]
                                    ELSE Unwrap(image.target_port)]>> \o rest

\* the component names of stack.spec.yaml, by position
ComponentName(k) == "c" \o ToString(k)

\* from_product_dir's loop over the stack config from the images so far to
\* its end, in a build that does not panic
RECURSIVE ConstructImages(_, _, _, _)
ConstructImages(stack, imgs, np, redirects) ==
    IF Len(imgs) = Len(stack) THEN [images |-> imgs, next_port |-> np]
    ELSE LET pushed == PushImage(imgs, np, stack[Len(imgs) + 1], redirects, TRUE)
         IN ConstructImages(stack, pushed.images, pushed.next_port, redirects)

----------------------------------------------------------------------------
(* The state of the dev loop while another specification runs *)

\* no DockerCrossCompileGuard is modelled
GuardsIdle ==
    /\ env = NoMap
    /\ guards = NoMap
    /\ env_before = NoMap

\* from_product_dir is not modelled
ConstructIdle ==
    /\ start_port = 0
    /\ stack_config = <<>>
    /\ redirect_args = {}
    /\ redirected_components = NoMap
    /\ next_port = 0
    /\ images = <<>>
    /\ services = <<>>
    /\ construct_pc = "none"

\* populate is not modelled
PopulateIdle ==
    /\ definitions = NoMap
    /\ vault = NoMap
    /\ vault_before = NoMap
    /\ existing_secrets = NoMap
    /\ store = NoMap
    /\ todo = <<>>
    /\ answers = NoMap
    /\ written = {}
    /\ populate_pc = "none"

\* validate_vault is not modelled
ValidateIdle ==
    /\ all_valid = TRUE
    /\ vault_secrets = NoMap
    /\ unvisited = {}
    /\ unchecked = {}
    /\ component_at_hand = ""
    /\ validate_pc = "none"

\* no Vault implementation is modelled
StoresIdle ==
    /\ backend = "none"
    /\ files = NoMap
    /\ env_files = NoMap
    /\ op_items = NoMap
    /\ last_set = NoMap
    /\ last_get = NoMap

\* no PathMatcher is modelled
MatcherIdle ==
    /\ gitignore = <<>>
    /\ match_patterns = <<>>
    /\ queried = NoMap
    /\ matcher_pc = "none"

\* no cluster manifests are modelled
ManifestsIdle ==
    /\ k8s_encoder = "none"
    /\ manifest_components = <<>>
    /\ output_dirs = {}
    /\ output_files = NoMap
    /\ output_before = {}
    /\ component_cursor = 0
    /\ manifests_pc = "none"

\* no component entry is parsed
FromYamlIdle ==
    /\ active_environment = ""
    /\ yaml_section = NoMap
    /\ component_spec = NoMap
    /\ from_yaml_pc = "none"

\* no file change is modelled
ChangesIdle ==
    /\ change_images = <<>>
    /\ pending_changes = {}
    /\ tested_files = {}
    /\ significant_change = {}
    /\ change_pc = "none"
    /\ existing_files = {}
    /\ watch_rx = {}

\* everything further down but the named part is idle
LaterIdleExcept(part) ==
    /\ part = "validate" \/ ValidateIdle
    /\ part = "stores" \/ StoresIdle
    /\ part = "matcher" \/ MatcherIdle
    /\ part = "manifests" \/ ManifestsIdle
    /\ part = "from_yaml" \/ FromYamlIdle
    /\ part = "changes" \/ ChangesIdle

LaterIdle == LaterIdleExcept("none")

\* everything outside the dev loop and the dependency graph is left out
OthersIdle == GuardsIdle /\ ConstructIdle /\ PopulateIdle /\ LaterIdle

ReactorIdle ==
    /\ image_name = NoMap
    /\ depends_on = NoMap
    /\ dev_ignore_image = NoMap
    /\ should_rebuild = NoMap
    /\ was_recently_rebuild = NoMap
    /\ pc = "idle"
    /\ break_type = "Running"
    /\ stopping = FALSE
    /\ deadline = FALSE
    /\ longest_paths = NoMap
    /\ statuses = NoMap
    /\ statuses_receivers = NoMap
    /\ handles = {}
    /\ result = "none"
    /\ task = NoMap
    /\ term_pending = NoMap
    /\ container = NoMap
    /\ has_output = NoMap
    /\ network = "unknown"
    /\ cycle = 0
    /\ marked = {}
    /\ cleaned = {}
    /\ build_log = <<>>
    /\ started = <<>>
    /\ forced = FALSE
    /\ interrupted = "no"
    /\ second_interrupt = "none"
    /\ awaiting_launch = {}
    /\ net_cmds = {}

----------------------------------------------------------------------------
(* Specification Spec: ContainerReactor::launch, the dev supervisor loop,   *)
(* with the image tasks, the containers, the watcher and the operator       *)

\* the stack of the dev loop, as its depends_on lists: two components X = 1
\* and Y = 2, both built from the repository, X depending on Y, so that the
\* launch order differs from the build order; Init takes every choice of
\* redirected (dev-ignored) components
DevStack == <<<<2>>, <<>>>>

\* from_docker_spec: should_rebuild: true, was_recently_rebuild: false
FreshImages(names, deps, ignore) ==
    /\ image_name = names
    /\ depends_on = deps
    /\ dev_ignore_image = ignore
    /\ should_rebuild = [i \in DOMAIN names |-> TRUE]
    /\ was_recently_rebuild = [i \in DOMAIN names |-> FALSE]

NoTasks(n) ==
    /\ task = [i \in 1..n |-> "none"]
    /\ term_pending = [i \in 1..n |-> 0]
    /\ container = [i \in 1..n |-> FALSE]
    /\ has_output = [i \in 1..n |-> FALSE]

NoHistory ==
    /\ cycle = 0
    /\ marked = {}
    /\ cleaned = {}
    /\ build_log = <<>>
    /\ started = <<>>
    /\ forced = FALSE
    /\ interrupted = "no"
    /\ second_interrupt = "none"
    /\ awaiting_launch = {}
    /\ net_cmds = {}

\* the components of DevStack in stack.spec.yaml: built from a Dockerfile with
\* EXPOSE 8080, no port in the spec
DevStackConfig ==
    [k \in DOMAIN DevStack |->
        [component_name |-> ComponentName(k), build_type |-> "RustBinary",
         port |-> OptionNone, target_port |-> OptionNone,
         exposes |-> <<"8080", "9090">>]]

\* the --redirect values of rush dev: none, one component, the other, both
DevRedirectArgs ==
    SUBSET {<<"c1", "@", "localhost", ":", "3000">>,
            <<"c2", "@", "example.org", ":", "4000">>}

\* main and from_product_dir, run to their end on DevStackConfig
Constructed(args) ==
    LET redirects == RedirectedComponents(args)
        made      == ConstructImages(DevStackConfig, <<>>, 9000, redirects)
    IN /\ start_port = 9000
       /\ stack_config = DevStackConfig
       /\ redirect_args = args
       /\ redirected_components = redirects
       /\ next_port = made.next_port
       /\ images = made.images
       /\ services = ServiceList(made.images, redirects, 1)
       /\ construct_pc = "done"

Init ==
    /\ \E args \in DevRedirectArgs : Constructed(args)
    /\ FreshImages([i \in DOMAIN DevStack |-> ComponentImageName(i)], DevStack,
                   [i \in DOMAIN DevStack |-> images[i].dev_ignore_image])
    /\ NoTasks(Len(DevStack))
    /\ network = "unknown"
    /\ NoHistory
    /\ pc = "start"
    /\ break_type = "Running"
    /\ stopping = FALSE
    /\ deadline = FALSE
    /\ longest_paths = NoMap
    /\ statuses = NoMap
    /\ statuses_receivers = NoMap
    /\ handles = {}
    /\ result = "none"
    /\ dependency_graph = NoMap
    /\ GuardsIdle
    /\ PopulateIdle
    /\ LaterIdle

\* setup_environment: create_network inspects the network and creates it when
\* it is missing; its result is dropped
SetupEnvironment ==
    /\ pc = "start"
    /\ pc' = "watcher"
    /\ net_cmds' = net_cmds \cup {"create_network"}
    /\ UNCHANGED <<image_vars, break_type, stopping, deadline, longest_paths,
                   statuses, statuses_receivers, handles, result,
                   world_vars,
                   cycle, marked, cleaned, build_log, started, forced,
                   interrupted, second_interrupt, awaiting_launch, dependency_graph, other_vars>>

\* setup_file_watcher()?: launch returns its error at once
SetupFileWatcher ==
    /\ pc = "watcher"
    /\ \/ /\ pc' = "loop"
          /\ result' = result
       \/ /\ pc' = "done"
          /\ result' = "Err"
    /\ UNCHANGED <<image_vars, break_type, stopping, deadline, longest_paths,
                   statuses, statuses_receivers, handles, world_vars, history_vars, dependency_graph, other_vars>>

\* while matches!(break_type, Running | FileChanged)
LoopTest ==
    /\ pc = "loop"
    /\ IF break_type \in {"Running", "FileChanged"}
       THEN /\ pc' = "kill_clean"
            /\ cycle' = IF cycle < MaxCycles THEN cycle + 1 ELSE cycle
            /\ marked' = {i \in ImageIds : should_rebuild[i]}
            /\ cleaned' = {}
            /\ build_log' = <<>>
            /\ started' = <<>>
            /\ forced' = FALSE
       ELSE /\ pc' = "cleanup"
            /\ UNCHANGED <<cycle, marked, cleaned, build_log, started, forced>>
    /\ UNCHANGED <<image_vars, break_type, stopping, deadline, longest_paths,
                   statuses, statuses_receivers, handles, result,
                   world_vars, interrupted, second_interrupt, awaiting_launch, net_cmds,
                   dependency_graph, other_vars>>

\* self.kill_and_clean(false) at the head of the cycle
KillAndClean ==
    /\ pc = "kill_clean"
    /\ pc' = "build"
    /\ cleaned' = KillAndCleanTargets(FALSE, should_rebuild)
    /\ container' = KillAndCleanContainers(KillAndCleanTargets(FALSE, should_rebuild))
    /\ UNCHANGED <<image_vars, break_type, stopping, deadline, longest_paths,
                   statuses, statuses_receivers, handles, result,
                   task, term_pending, network,
                   cycle, marked, build_log, started, forced, interrupted, second_interrupt,
                   awaiting_launch, net_cmds, dependency_graph, other_vars, has_output>>

\* build_and_handle_errors: self.build(), every image in insertion order;
\* on Err, handle_build_error starts to wait
Build ==
    /\ pc = "build"
    /\ \E fail \in {0} \cup {i \in ImageIds : ~dev_ignore_image[i] /\ should_rebuild[i]} :
          LET r == BuildResult(fail)
          IN /\ should_rebuild' = r.sr
             /\ was_recently_rebuild' = r.wrr
             /\ build_log' = r.log
             /\ awaiting_launch' =
                    awaiting_launch \cup {r.log[k][1] : k \in {j \in DOMAIN r.log : r.log[j][2]}}
             /\ pc' = IF r.err THEN "build_wait" ELSE "prepare"
    /\ UNCHANGED <<image_name, depends_on, dev_ignore_image, break_type, stopping, deadline,
                   longest_paths, statuses, statuses_receivers, handles, result, world_vars, cycle, marked, cleaned, started, forced,
                   interrupted, second_interrupt, net_cmds, dependency_graph, other_vars>>

\* a variant of BuildWaitTick: any reported change ends the wait
BuildWaitTickAnyChange(changed_files) ==
    /\ pc = "build_wait"
    /\ changed_files # {}
    /\ should_rebuild' = MarkRebuild(AffectedImages(changed_files))
    /\ break_type' = "FileChanged"
    /\ pc' = "loop"
    /\ UNCHANGED <<image_name, depends_on, dev_ignore_image, was_recently_rebuild,
                   stopping, deadline, longest_paths, statuses, statuses_receivers,
                   handles, result, world_vars, history_vars, dependency_graph, other_vars>>

\* handle_build_error, one turn of its loop with the 10 ms timer winning:
\* test_if_files_changed and, when files changed, test_if_siginificant_change
BuildWaitTick(changed_files) ==
    /\ pc = "build_wait"
    /\ changed_files # {}
    /\ should_rebuild' = MarkRebuild(AffectedImages(changed_files))
    /\ IF AffectedImages(changed_files) # {}
       THEN /\ break_type' = "FileChanged"
            /\ pc' = "loop"
       ELSE UNCHANGED <<break_type, pc>>
    /\ UNCHANGED <<image_name, depends_on, dev_ignore_image, was_recently_rebuild, stopping,
                   deadline, longest_paths, statuses, statuses_receivers, handles,
                   result, world_vars, history_vars, dependency_graph, other_vars>>

\* handle_build_error, ctrl_c wins the select: broadcast terminate and stop
BuildWaitInterrupt ==
    /\ pc = "build_wait"
    /\ term_pending' = Broadcast(term_pending)
    /\ break_type' = "Stopped"
    /\ interrupted' = "build"
    /\ second_interrupt' = second_interrupt
    /\ pc' = "loop"
    /\ UNCHANGED <<image_vars, stopping, deadline, longest_paths, statuses,
                   statuses_receivers, handles, result,
                   task, container, network,
                   cycle, marked, cleaned, build_log, started, forced,
                   awaiting_launch, net_cmds, dependency_graph, other_vars, has_output>>

\* prepare_for_launch: the launch priorities
PrepareForLaunch ==
    /\ pc = "prepare"
    /\ pc' = "launch"
    /\ longest_paths' = compute_longest_paths(DependencyGraphOf(image_name, depends_on))
    /\ UNCHANGED <<image_vars, break_type, stopping, deadline, statuses,
                   statuses_receivers, handles, result,
                   world_vars, history_vars, dependency_graph, other_vars>>

\* launch_images: the maps are reset, then every eligible image is launched in
\* job order; DockerImage::launch sends Awaiting before it spawns the task.
\* monitor_and_handle_events starts with stopping = false.
LaunchImages ==
    /\ pc = "launch"
    /\ pc' = "monitor"
    /\ LET order    == LaunchOrder(longest_paths)
           launched == Range(order)
       IN /\ started' = order
          /\ statuses' = [i \in launched |-> "Awaiting"]
          /\ statuses_receivers' = [i \in launched |-> <<"Awaiting">>]
          /\ handles' = launched
          /\ task' = [i \in ImageIds |-> IF i \in launched THEN "spawned" ELSE task[i]]
          /\ term_pending' = [i \in ImageIds |->
                                 IF i \in launched THEN 0 ELSE term_pending[i]]
          /\ has_output' = [i \in ImageIds |->
                               IF i \in launched THEN FALSE ELSE has_output[i]]
    /\ awaiting_launch' = {}
    /\ stopping' = FALSE
    /\ UNCHANGED <<image_vars, break_type, deadline, longest_paths, result, container, network, cycle, marked, cleaned, build_log,
                   forced, interrupted, second_interrupt, net_cmds, dependency_graph, other_vars>>

\* monitor_and_handle_events, one turn of its loop with the 10 ms timer
\* winning: handle_file_changes, update_image_statuses, the all_finished
\* test, handle_image_completion. With all_finished the loop is left and
\* handle_shutdown skips its own loop and waits for the handles.
MonitorTick(changed_files) ==
    /\ pc = "monitor"
    /\ IF AffectedImages(changed_files) # {}
       THEN \* handle_file_changes returned true: return BreakType::FileChanged
            /\ should_rebuild' = MarkRebuild(AffectedImages(changed_files))
            /\ stopping' = FALSE  \* *stopping = true: a local, dead on return
            /\ break_type' = "FileChanged"
            /\ pc' = "loop"
            /\ UNCHANGED <<statuses, statuses_receivers, container, forced>>
       ELSE /\ statuses' = update_image_statuses(statuses, statuses_receivers)
            /\ statuses_receivers' = Drained(statuses_receivers)
            /\ UNCHANGED <<should_rebuild, stopping>>
            /\ IF AllFinished(statuses')
               THEN /\ pc' = "wait_handles"
                    /\ UNCHANGED <<break_type, container, forced>>
               ELSE IF AnyFinished(statuses')
               THEN \* handle_image_completion: kill_and_clean(true), Exited
                    /\ container' = KillAndCleanContainers(KillAndCleanTargets(TRUE, should_rebuild))
                    /\ forced' = TRUE
                    /\ break_type' = "Exited"
                    /\ pc' = "loop"
               ELSE UNCHANGED <<pc, break_type, container, forced>>
    /\ UNCHANGED <<image_name, depends_on, dev_ignore_image, was_recently_rebuild, deadline,
                   longest_paths, handles, result, task, term_pending,
                   network, cycle, marked, cleaned, build_log, started,
                   interrupted, second_interrupt, awaiting_launch, net_cmds, dependency_graph, other_vars, has_output>>

\* monitor_and_handle_events, ctrl_c wins the select: handle_termination_signal
\* broadcasts terminate, drains the statuses, sets stop_time and stopping
MonitorInterrupt ==
    /\ pc = "monitor"
    /\ term_pending' = Broadcast(term_pending)
    /\ statuses' = update_image_statuses(statuses, statuses_receivers)
    /\ statuses_receivers' = Drained(statuses_receivers)
    /\ stopping' = TRUE
    /\ deadline' = FALSE
    /\ interrupted' = "monitor"
    /\ second_interrupt' = second_interrupt
    /\ pc' = "shutdown_sleep"
    /\ UNCHANGED <<image_vars, break_type, longest_paths, handles, result, task, container, network,
                   cycle, marked, cleaned, build_log, started, forced,
                   awaiting_launch, net_cmds, dependency_graph, other_vars, has_output>>

\* handle_shutdown begins with a sleep of one second; only then it creates
\* its own ctrl_c() listener
ShutdownSleepEnds ==
    /\ pc = "shutdown_sleep"
    /\ pc' = "shutdown"
    /\ UNCHANGED <<image_vars, break_type, stopping, deadline, longest_paths,
                   statuses, statuses_receivers, handles, result,
                   world_vars, history_vars, dependency_graph, other_vars>>

\* the operator interrupts again while no ctrl_c() future exists or is polled:
\* during the sleep of handle_shutdown, or in wait_for_handles, whose select
\* has no ctrl_c branch. The signal handler tokio installed stays in place,
\* so the process goes on, and a listener created later does not see a
\* signal delivered before it.
InterruptUnheard ==
    /\ \/ pc = "shutdown_sleep"
       \/ pc = "wait_handles" /\ stopping
    /\ second_interrupt = "none"
    /\ second_interrupt' = "unheard"
    /\ UNCHANGED <<image_vars, reactor_vars, world_vars,
                   cycle, marked, cleaned, build_log, started, forced, interrupted,
                   awaiting_launch, net_cmds, dependency_graph, other_vars>>

\* five seconds pass after stop_time
DeadlineElapse ==
    /\ interrupted = "monitor"
    /\ ~deadline
    /\ deadline' = TRUE
    /\ UNCHANGED <<image_vars, pc, break_type, stopping, longest_paths, statuses,
                   statuses_receivers, handles, result,
                   world_vars, history_vars, dependency_graph, other_vars>>

\* a variant of ShutdownTick: the deadline test does not look at the clock
ShutdownTickNoGrace ==
    /\ pc = "shutdown"
    /\ statuses' = update_image_statuses(statuses, statuses_receivers)
    /\ statuses_receivers' = Drained(statuses_receivers)
    /\ IF AllFinished(statuses')
       THEN /\ pc' = "wait_handles"
            /\ UNCHANGED <<container, forced>>
       ELSE /\ container' = KillAndCleanContainers(KillAndCleanTargets(TRUE, should_rebuild))
            /\ forced' = TRUE
            /\ pc' = "wait_handles"
    /\ UNCHANGED <<image_vars, break_type, stopping, deadline, longest_paths,
                   handles, result, task, term_pending, network,
                   cycle, marked, cleaned, build_log, started, interrupted, second_interrupt,
                   awaiting_launch, net_cmds, dependency_graph, other_vars, has_output>>

\* handle_shutdown, one turn of its loop with the 10 ms timer winning (stopping
\* is true, so handle_file_changes does nothing): update_image_statuses, the
\* all-Finished test, the deadline test with handle_shutdown_timeout
ShutdownTick ==
    /\ pc = "shutdown"
    /\ statuses' = update_image_statuses(statuses, statuses_receivers)
    /\ statuses_receivers' = Drained(statuses_receivers)
    /\ IF AllFinished(statuses')
       THEN /\ pc' = "wait_handles"
            /\ UNCHANGED <<container, forced>>
       ELSE IF stopping /\ deadline
       THEN /\ container' = KillAndCleanContainers(KillAndCleanTargets(TRUE, should_rebuild))
            /\ forced' = TRUE
            /\ pc' = "wait_handles"
       ELSE UNCHANGED <<pc, container, forced>>
    /\ UNCHANGED <<image_vars, break_type, stopping, deadline, longest_paths,
                   handles, result, task, term_pending, network,
                   cycle, marked, cleaned, build_log, started, interrupted, second_interrupt,
                   awaiting_launch, net_cmds, dependency_graph, other_vars, has_output>>

\* handle_shutdown, ctrl_c wins the select: handle_forceful_shutdown, return
\* false, so monitor_and_handle_events returns Stopped
ShutdownInterrupt ==
    /\ pc = "shutdown"
    /\ term_pending' = Broadcast(term_pending)
    /\ statuses' = update_image_statuses(statuses, statuses_receivers)
    /\ statuses_receivers' = Drained(statuses_receivers)
    /\ container' = KillAndCleanContainers(KillAndCleanTargets(TRUE, should_rebuild))
    /\ forced' = TRUE
    /\ break_type' = "Stopped"
    /\ stopping' = FALSE  \* the local dies with the return
    /\ second_interrupt' = IF second_interrupt = "none" THEN "handled"
                           ELSE second_interrupt
    /\ pc' = "loop"
    /\ UNCHANGED <<image_vars, deadline, longest_paths, handles,
                   result, task, network,
                   cycle, marked, cleaned, build_log, started, interrupted,
                   awaiting_launch, net_cmds, dependency_graph, other_vars, has_output>>

\* wait_for_handles, join_all wins the select; handle_shutdown returns
\* !stopping and monitor_and_handle_events maps true to Running
WaitHandlesJoined ==
    /\ pc = "wait_handles"
    /\ \A i \in handles : task[i] = "returned"
    /\ handles' = {}
    /\ break_type' = IF stopping THEN "Stopped" ELSE "Running"
    /\ stopping' = FALSE  \* the local dies with the return
    /\ pc' = "loop"
    /\ UNCHANGED <<image_vars, deadline, longest_paths, statuses,
                   statuses_receivers, result, world_vars,
                   history_vars, dependency_graph, other_vars>>

\* wait_for_handles, the 5 s timer wins the select: terminate is broadcast
\* again and kill_all_images kills every container. The timer was started
\* after stop_time was taken, so five seconds have passed since stop_time too.
\* The loop then builds a new join_all over the same JoinHandles: a handle
\* whose task had returned and that the dropped join_all had polled to its
\* end is polled again, and a tokio JoinHandle polled after completion
\* panics. Whether the dropped join_all had polled it is open.
WaitHandlesTimeout ==
    /\ pc = "wait_handles"
    /\ \E i \in handles : task[i] # "returned"
    /\ term_pending' = Broadcast(term_pending)
    /\ container' = KillAllContainers
    /\ deadline' = (deadline \/ stopping)
    /\ \/ pc' = pc
       \/ /\ \E i \in handles : task[i] = "returned"
          /\ pc' = "panicked"
    /\ UNCHANGED <<image_vars, break_type, stopping, longest_paths, statuses,
                   statuses_receivers, handles, result, task, network,
                   history_vars, dependency_graph, other_vars, has_output>>

\* cleanup: delete_network inspects the network (`exists` is what docker
\* answers) and issues `docker network rm` when it exists; launch returns Ok
Cleanup(exists) ==
    /\ pc = "cleanup"
    /\ pc' = "done"
    /\ result' = "Ok"
    /\ network' = IF exists THEN "exists" ELSE "missing"
    /\ net_cmds' = net_cmds \cup {"delete_network"} \cup (IF exists THEN {"rm"} ELSE {})
    /\ UNCHANGED <<image_vars, break_type, stopping, deadline, longest_paths,
                   statuses, statuses_receivers, handles, task, term_pending, container,
                   cycle, marked, cleaned, build_log, started, forced,
                   interrupted, second_interrupt, awaiting_launch, dependency_graph, other_vars, has_output>>

\* ---- the image task spawned by DockerImage::launch (docker.rs:384-573)

\* the task runs `docker run`; InProgress is sent whatever spawn returned, and
\* StartupCompleted right after a successful spawn
TaskSpawn(i) ==
    /\ task[i] = "spawned"
    /\ \/ /\ task' = [task EXCEPT ![i] = "waiting"]
          /\ container' = [container EXCEPT ![i] = TRUE]
          /\ statuses_receivers' =
                 Send(statuses_receivers, i, <<"InProgress", "StartupCompleted">>)
       \/ /\ task' = [task EXCEPT ![i] = "failed"]
          /\ container' = container
          /\ statuses_receivers' = Send(statuses_receivers, i, <<"InProgress">>)
    /\ UNCHANGED <<image_vars, pc, break_type, stopping, deadline, longest_paths,
                   statuses, handles, result, term_pending,
                   network, history_vars, dependency_graph, other_vars, has_output>>

\* the child writes a line to stdout or stderr while the task waits in its
\* select: handle_stream sends it and the printing task pushes it to lines
TaskReadLine(i) ==
    /\ task[i] \in {"waiting", "terminating"}
    /\ container[i]
    /\ ~has_output[i]
    /\ has_output' = [has_output EXCEPT ![i] = TRUE]
    /\ UNCHANGED <<image_vars, reactor_vars, task, term_pending, container, network,
                   history_vars, dependency_graph, other_vars>>

\* the process in the container exits: by itself, or on the SIGTERM its task
\* has sent
ContainerExit(i) ==
    /\ container[i]
    /\ container' = [container EXCEPT ![i] = FALSE]
    /\ UNCHANGED <<image_vars, reactor_vars, task, term_pending, network,
                   history_vars, dependency_graph, other_vars, has_output>>

\* the select of docker.rs:508 ends because the child is gone (the streams
\* closed or child.wait() returned); child.wait() gives the code and
\* Finished(code) is sent
TaskChildExited(i) ==
    /\ task[i] = "waiting"
    /\ ~container[i]
    /\ task' = [task EXCEPT ![i] = "finishing"]
    /\ statuses_receivers' = Send(statuses_receivers, i, <<"Finished">>)
    /\ UNCHANGED <<image_vars, pc, break_type, stopping, deadline, longest_paths,
                   statuses, handles, result, term_pending,
                   container, network, history_vars, dependency_graph, other_vars, has_output>>

\* the select ends with terminate_receiver.recv(): Terminate is sent and the
\* child gets SIGTERM; `let _ = child.kill();` drops the future unpolled
TaskTerminate(i) ==
    /\ task[i] = "waiting"
    /\ term_pending[i] > 0
    /\ term_pending' = [term_pending EXCEPT ![i] = @ - 1]
    /\ task' = [task EXCEPT ![i] = "terminating"]
    /\ statuses_receivers' = Send(statuses_receivers, i, <<"Terminate">>)
    /\ UNCHANGED <<image_vars, pc, break_type, stopping, deadline, longest_paths,
                   statuses, handles, result, container,
                   network, history_vars, dependency_graph, other_vars, has_output>>

\* a variant of TaskTerminated: the task goes on without awaiting the child
TaskTerminatedNoWait(i) ==
    /\ task[i] = "terminating"
    /\ task' = [task EXCEPT ![i] = "finishing"]
    /\ statuses_receivers' = Send(statuses_receivers, i, <<"Finished">>)
    /\ UNCHANGED <<image_vars, pc, break_type, stopping, deadline, longest_paths,
                   statuses, handles, result, term_pending,
                   container, network, history_vars, dependency_graph, other_vars, has_output>>

\* child.wait().await after the terminate branch: the child has exited
TaskTerminated(i) ==
    /\ task[i] = "terminating"
    /\ ~container[i]
    /\ task' = [task EXCEPT ![i] = "finishing"]
    /\ statuses_receivers' = Send(statuses_receivers, i, <<"Finished">>)
    /\ UNCHANGED <<image_vars, pc, break_type, stopping, deadline, longest_paths,
                   statuses, handles, result, term_pending,
                   container, network, history_vars, dependency_graph, other_vars, has_output>>

\* the closing terminate_receiver.try_recv(): a message read there makes the
\* task send Terminate when the child had been spawned; the task returns
TaskReturn(i) ==
    /\ task[i] \in {"finishing", "failed"}
    /\ task' = [task EXCEPT ![i] = "returned"]
    /\ IF term_pending[i] > 0
       THEN /\ term_pending' = [term_pending EXCEPT ![i] = @ - 1]
            /\ statuses_receivers' =
                 IF task[i] = "finishing"
                 THEN Send(statuses_receivers, i, <<"Terminate">>)
                 ELSE statuses_receivers
       ELSE UNCHANGED <<term_pending, statuses_receivers>>
    /\ UNCHANGED <<image_vars, pc, break_type, stopping, deadline, longest_paths,
                   statuses, handles, result, container,
                   network, history_vars, dependency_graph, other_vars, has_output>>

TaskNext(i) ==
    \/ TaskSpawn(i)
    \/ TaskReadLine(i)
    \/ ContainerExit(i)
    \/ TaskChildExited(i)
    \/ TaskTerminate(i)
    \/ TaskTerminated(i)
    \/ TaskReturn(i)

ReactorNext ==
    \/ SetupEnvironment
    \/ SetupFileWatcher
    \/ LoopTest
    \/ KillAndClean
    \/ Build
    \/ \E changed_files \in SUBSET Paths : BuildWaitTick(changed_files)
    \/ BuildWaitInterrupt
    \/ PrepareForLaunch
    \/ LaunchImages
    \/ \E changed_files \in SUBSET Paths : MonitorTick(changed_files)
    \/ MonitorInterrupt
    \/ ShutdownSleepEnds
    \/ ShutdownTick
    \/ ShutdownInterrupt
    \/ WaitHandlesJoined
    \/ WaitHandlesTimeout
    \/ \E exists \in BOOLEAN : Cleanup(exists)

Next ==
    \/ ReactorNext
    \/ \E i \in ImageIds : TaskNext(i)
    \/ DeadlineElapse
    \/ InterruptUnheard

Spec == Init /\ [][Next]_vars

----------------------------------------------------------------------------
(* Specification SpecGraph: compute_longest_paths on every acyclic          *)
(* dependency graph over NumNodes images with at most MaxDeps dependencies  *)
(* per image, in every order of the depends_on lists                        *)

Nodes == 1..NumNodes

\* whether `to` is reachable from `from` along depends_on edges
RECURSIVE Reaches(_, _, _, _)
Reaches(graph, from, to, fuel) ==
    \/ from = to
    \/ /\ fuel > 0
       /\ \E d \in Range(graph[from]) : Reaches(graph, d, to, fuel - 1)

GraphInit ==
    /\ ReactorIdle
    /\ OthersIdle
    /\ dependency_graph = [n \in Nodes |-> <<>>]

\* one more `depends_on` entry in the stack spec (docker.rs:227-231 appends
\* them in the order written); the graph stays acyclic
AddDependency(a, b) ==
    /\ longest_paths = NoMap
    /\ Len(dependency_graph[a]) < MaxDeps
    /\ b \notin Range(dependency_graph[a])
    /\ ~Reaches(dependency_graph, b, a, NumNodes)
    /\ dependency_graph' = [dependency_graph EXCEPT ![a] = Append(@, b)]
    /\ UNCHANGED <<image_vars, reactor_vars, world_vars, history_vars, other_vars>>

\* prepare_for_launch's call of compute_longest_paths
ComputeLongestPaths ==
    /\ longest_paths = NoMap
    /\ longest_paths' = compute_longest_paths(dependency_graph)
    /\ UNCHANGED <<image_vars, pc, break_type, stopping, deadline, statuses,
                   statuses_receivers, handles, result, world_vars,
                   history_vars, dependency_graph, other_vars>>

GraphNext ==
    \/ \E a \in Nodes, b \in Nodes : AddDependency(a, b)
    \/ ComputeLongestPaths

SpecGraph == GraphInit /\ [][GraphNext]_vars

\* C2: for every dependency graph and any two images A, B with B in
\* depends_on(A), the priorities returned by compute_longest_paths satisfy
\* priority(B) <= priority(A).
DependencyOrder ==
    longest_paths # NoMap =>
        \A a \in DOMAIN dependency_graph :
            \A b \in Range(dependency_graph[a]) :
                longest_paths[b] <= longest_paths[a]

----------------------------------------------------------------------------
(* Specification SpecBuild: ContainerReactor::build on a stack of NumImages *)
(* images in every state of their flags that the dev loop can produce       *)

\* the flags of one image when a cycle starts: a dev-ignored image is never
\* built, so it keeps should_rebuild = true and was_recently_rebuild = false
FlagsPossible(ignore, rebuild, recently) ==
    \A i \in DOMAIN ignore : ignore[i] => rebuild[i] /\ ~recently[i]

ReactorAt(at) ==
    /\ pc = at
    /\ break_type = "Running"
    /\ stopping = FALSE
    /\ deadline = FALSE
    /\ longest_paths = NoMap
    /\ statuses = NoMap
    /\ statuses_receivers = NoMap
    /\ handles = {}
    /\ result = "none"
    /\ network = "unknown"
    /\ cleaned = {}
    /\ build_log = <<>>
    /\ started = <<>>
    /\ forced = FALSE
    /\ interrupted = "no"
    /\ second_interrupt = "none"
    /\ net_cmds = {"create_network"}
    /\ dependency_graph = NoMap
    /\ OthersIdle

BuildInit ==
    /\ \E ignore \in [1..NumImages -> BOOLEAN],
          rebuild \in [1..NumImages -> BOOLEAN],
          recently \in [1..NumImages -> BOOLEAN] :
          /\ FlagsPossible(ignore, rebuild, recently)
          /\ image_name = [i \in 1..NumImages |-> ComponentImageName(i)]
          /\ depends_on = [i \in 1..NumImages |-> <<>>]
          /\ dev_ignore_image = ignore
          /\ should_rebuild = rebuild
          /\ was_recently_rebuild = recently
          /\ marked = {i \in 1..NumImages : rebuild[i]}
    /\ NoTasks(NumImages)
    /\ ReactorAt("build")
    /\ cycle = 1
    /\ awaiting_launch = {}

SpecBuild == BuildInit /\ [][Build]_vars

----------------------------------------------------------------------------
(* Specification SpecLaunch: prepare_for_launch and launch_images in the    *)
(* first cycle, after every image has been built, on every stack of         *)
(* NumImages components that each declare at most one dependency            *)

DependsChoices == {<<>>} \cup {<<j>> : j \in 1..NumImages}

LaunchInit ==
    /\ \E pure \in SUBSET (1..NumImages),
          deps \in [1..NumImages -> DependsChoices],
          ignore \in [1..NumImages -> BOOLEAN] :
          /\ image_name = [i \in 1..NumImages |->
                              IF i \in pure THEN RegistryImageName(i)
                              ELSE ComponentImageName(i)]
          /\ depends_on = deps
          /\ dev_ignore_image = ignore
          /\ should_rebuild = ignore
          /\ was_recently_rebuild = [i \in 1..NumImages |-> ~ignore[i]]
          /\ marked = 1..NumImages
          /\ awaiting_launch = {i \in 1..NumImages : ~ignore[i]}
    /\ NoTasks(NumImages)
    /\ ReactorAt("prepare")
    /\ cycle = 1

LaunchNext ==
    \/ PrepareForLaunch
    \/ LaunchImages

SpecLaunch == LaunchInit /\ [][LaunchNext]_vars

----------------------------------------------------------------------------
(* Specification SpecGuard: the DockerCrossCompileGuards of NumHolders      *)
(* holders (Image.build and the image tasks of DockerImage::launch) that    *)
(* are created and dropped in every order, on every prior environment       *)

\* how many holders create a guard
NumHolders == 3

Holders == 1..NumHolders

\* toolchain.host() for a PureDockerImage, toolchain.target() otherwise
DockerTargets == {"linux/arm64", "linux/amd64"}

\* the values the operator may have exported before rush starts
PriorValues == {OptionNone, Some("--platform linux/386")}

NotCreated == [at |-> "none"]

\* DockerCrossCompileGuard::new: remember both variables, then set them
GuardNew(h, target) ==
    /\ guards[h].at = "none"
    /\ guards' = [guards EXCEPT ![h] =
                     [at |-> "held",
                      cross_container_opts |-> env.CROSS_CONTAINER_OPTS,
                      docker_default_platform |-> env.DOCKER_DEFAULT_PLATFORM,
                      target |-> target]]
    /\ env' = [CROSS_CONTAINER_OPTS |-> Some("--platform " \o target),
               DOCKER_DEFAULT_PLATFORM |-> Some(target)]
    /\ UNCHANGED <<image_vars, reactor_vars, world_vars, history_vars,
                   dependency_graph, env_before, construct_vars, populate_vars, later_vars>>

\* Drop for DockerCrossCompileGuard: set_var what was Some, remove_var what
\* was None
GuardDrop(h) ==
    /\ guards[h].at = "held"
    /\ env' = [CROSS_CONTAINER_OPTS |-> guards[h].cross_container_opts,
               DOCKER_DEFAULT_PLATFORM |-> guards[h].docker_default_platform]
    /\ guards' = [guards EXCEPT ![h] = [at |-> "dropped"]]
    /\ UNCHANGED <<image_vars, reactor_vars, world_vars, history_vars,
                   dependency_graph, env_before, construct_vars, populate_vars, later_vars>>

GuardInit ==
    /\ ReactorIdle
    /\ dependency_graph = NoMap
    /\ ConstructIdle
    /\ PopulateIdle
    /\ LaterIdle
    /\ env \in [CROSS_CONTAINER_OPTS : PriorValues,
                DOCKER_DEFAULT_PLATFORM : PriorValues]
    /\ env_before = env
    /\ guards = [h \in Holders |-> NotCreated]

GuardNext ==
    \E h \in Holders :
        \/ \E target \in DockerTargets : GuardNew(h, target)
        \/ GuardDrop(h)

SpecGuard == GuardInit /\ [][GuardNext]_vars

----------------------------------------------------------------------------
(* Specification SpecConstruct: main's redirect parsing and                  *)
(* ContainerReactor::from_product_dir on every stack config of               *)
(* NumComponents components                                                  *)

\* how many components stack.spec.yaml declares
NumComponents == 2

\* Config.start_port (--port): a port that a component spec names too, the
\* default of an example, and the last u16 values
StartPorts == {3000, 9000, U16Max - 1}

\* the EXPOSE lines of a Dockerfile, trimmed of the keyword
ExposeLines == {<<>>, <<"8080", "9090">>, <<"8080/tcp">>}

\* ComponentBuildSpec::from_yaml: the fields from_product_dir reads
ComponentSpecs(k) ==
    [component_name : {ComponentName(k)}, build_type : {"RustBinary"},
     port : {OptionNone, Some(3000)}, target_port : {OptionNone, Some(4000)},
     exposes : ExposeLines]
    \cup
    [component_name : {ComponentName(k)}, build_type : {"PureDockerImage"},
     port : {OptionNone, Some(3000)}, target_port : {OptionNone, Some(4000)},
     exposes : {<<>>}]

StackConfigs ==
    {stack \in [1..NumComponents -> UNION {ComponentSpecs(k) : k \in 1..NumComponents}] :
        \A k \in 1..NumComponents : stack[k] \in ComponentSpecs(k)}

\* the --redirect values of a dev run
RedirectArgs ==
    {{},
     {<<"c1", "@", "localhost", ":", "3000">>},
     {<<"c1", "@", "127.0.0.1", ":", "3000">>,
      <<"c2", "@", "example.org", ":", "4000">>},
     {<<"c1", "@", "localhost">>, <<"c2", "@", "example.org", ":", "http">>}}

ConstructInit ==
    /\ ReactorIdle
    /\ dependency_graph = NoMap
    /\ GuardsIdle
    /\ PopulateIdle
    /\ LaterIdle
    /\ start_port \in StartPorts
    /\ stack_config \in StackConfigs
    /\ redirect_args \in RedirectArgs
    /\ redirected_components = NoMap
    /\ next_port = 0
    /\ images = <<>>
    /\ services = <<>>
    /\ construct_pc = "main"

\* main: the redirect overrides of the command line
ParseRedirects ==
    /\ construct_pc = "main"
    /\ redirected_components' = RedirectedComponents(redirect_args)
    /\ construct_pc' = "from_product_dir"
    /\ UNCHANGED <<image_vars, reactor_vars, world_vars, history_vars, dependency_graph,
                   guard_vars, populate_vars, later_vars, start_port, stack_config, redirect_args, next_port,
                   images, services>>

\* from_product_dir, up to its loop over the stack config
FromProductDir ==
    /\ construct_pc = "from_product_dir"
    /\ next_port' = start_port
    /\ images' = <<>>
    /\ construct_pc' = "images"
    /\ UNCHANGED <<image_vars, reactor_vars, world_vars, history_vars, dependency_graph,
                   guard_vars, populate_vars, later_vars, start_port, stack_config, redirect_args,
                   redirected_components, services>>

\* one round of the loop over the stack config
PushNextImage ==
    /\ construct_pc = "images"
    /\ Len(images) < Len(stack_config)
    /\ \E wrap \in BOOLEAN :
          LET pushed == PushImage(images, next_port, stack_config[Len(images) + 1],
                                  redirected_components, wrap)
          IN IF pushed.panic
             THEN /\ construct_pc' = "panicked"
                  /\ UNCHANGED <<images, next_port>>
             ELSE /\ images' = pushed.images
                  /\ next_port' = pushed.next_port
                  /\ construct_pc' = construct_pc
    /\ UNCHANGED <<image_vars, reactor_vars, world_vars, history_vars, dependency_graph,
                   guard_vars, populate_vars, later_vars, start_port, stack_config, redirect_args,
                   redirected_components, services>>

\* the service list, after the loop
GenerateServices ==
    /\ construct_pc = "images"
    /\ Len(images) = Len(stack_config)
    /\ services' = ServiceList(images, redirected_components, 1)
    /\ construct_pc' = "done"
    /\ UNCHANGED <<image_vars, reactor_vars, world_vars, history_vars, dependency_graph,
                   guard_vars, populate_vars, later_vars, start_port, stack_config, redirect_args,
                   redirected_components, next_port, images>>

ConstructNext ==
    \/ ParseRedirects
    \/ FromProductDir
    \/ PushNextImage
    \/ GenerateServices

SpecConstruct == ConstructInit /\ [][ConstructNext]_vars

----------------------------------------------------------------------------
(* Specification SpecVault: SecretsDefinitions::populate on the definitions  *)
(* of two components x and y and every prior content of their vault entries  *)

\* HashMap::insert
Put(map, key, value) ==
    [k \in DOMAIN map \cup {key} |-> IF k = key THEN value ELSE map[k]]

\* sort() on the component names and on the secret names that occur
ComponentOrder == <<"x", "y">>
SecretOrder == <<"j", "k">>

Sorted(order, keys) == SelectSeq(order, LAMBDA k : k \in keys)

\* GenerationMethod: RandomHex, a key pair, or Ref with its path as tokens
RandomHex == [kind |-> "RandomHex"]
KeyPair == [kind |-> "KeyPair"]
Ref(component, secret) == [kind |-> "Ref", path |-> <<component, ".", secret>>]

\* the secrets x may declare: k always, j as a reference or not at all
XSecrets ==
    {Put(m, "k", mk) :
        m \in {NoMap} \cup {Put(NoMap, "j", mj) :
                               mj \in {Ref("x", "k"), Ref("x", "k_PRIVATE_KEY")}},
        mk \in {RandomHex, KeyPair, Ref("y", "k")}}

\* the secret y declares
YSecrets ==
    {Put(NoMap, "k", mk) :
        mk \in {RandomHex, Ref("x", "k"), Ref("x", "j"), Ref("z", "k"),
                Ref("x", "k_PUBLIC_KEY")}}

SecretsDefinitions == {Put(Put(NoMap, "x", xs), "y", ys) : xs \in XSecrets, ys \in YSecrets}

\* what an earlier run may have left in the vault
Stored(component, names) == [n \in names |-> <<"old", component, n>>]

VaultContents ==
    {Put(Put(NoMap, "x", Stored("x", plain \cup pair)), "y", Stored("y", yk)) :
        plain \in SUBSET {"j", "k"},
        pair \in {{}, {"k_PRIVATE_KEY", "k_PUBLIC_KEY"}},
        yk \in SUBSET {"k"}}

\* the rounds of populate's two nested loops, in their order
RECURSIVE Rounds(_, _)
Rounds(defs, k) ==
    IF k > Len(ComponentOrder) THEN <<>>
    ELSE LET c     == ComponentOrder[k]
             names == IF c \in DOMAIN defs THEN Sorted(SecretOrder, DOMAIN defs[c])
                      ELSE <<>>
         IN [j \in DOMAIN names |-> <<c, names[j]>>] \o Rounds(defs, k + 1)

\* path[1..].join(".")
RECURSIVE Join(_, _)
Join(parts, k) ==
    IF k > Len(parts) THEN ""
    ELSE IF k = Len(parts) THEN Text(parts[k])
    ELSE Text(parts[k]) \o "." \o Join(parts, k + 1)

is_reference(component_name, secret_name) ==
    /\ component_name \in DOMAIN definitions
    /\ secret_name \in DOMAIN definitions[component_name]
    /\ definitions[component_name][secret_name].kind = "Ref"

\* generate_secret on a declared secret; a generated value is new
generate_secret(component_name, secret_name) ==
    LET method == definitions[component_name][secret_name]
    IN CASE method.kind = "RandomHex" ->
              [kind |-> "Value", value |-> <<"new", component_name, secret_name>>]
         [] method.kind = "KeyPair" ->
              [kind |-> "KeyPair",
               private_key |-> <<"new", component_name, secret_name, "private">>,
               public_key |-> <<"new", component_name, secret_name, "public">>]
         [] method.kind = "Ref" ->
              LET path == Split(method.path, ".")
              IN [kind |-> "Ref", component |-> Text(path[1]), secret |-> Join(path, 2)]

\* entry(component).or_insert_with(..)
Entry(st, component) ==
    IF component \in DOMAIN st THEN st[component]
    ELSE [secrets |-> NoMap, references |-> <<>>]

\* SecretStore::add_secret
add_secret(st, component, name, value) ==
    Put(st, component,
        [Entry(st, component) EXCEPT !.secrets = Put(@, name, value)])

\* SecretStore::add_reference
add_reference(st, component, name, ref_component, ref_secret) ==
    Put(st, component,
        [Entry(st, component) EXCEPT
            !.references = Append(@, [secret_name |-> name, component |-> ref_component,
                                      referenced_secret |-> ref_secret])])

\* the inner loop of resolve_references on one component set
RECURSIVE ResolveFrom(_, _, _, _)
ResolveFrom(secrets, references, k, components) ==
    IF k > Len(references) THEN secrets
    ELSE LET reference == references[k]
             found     == /\ reference.component \in DOMAIN components
                          /\ reference.referenced_secret \in
                                DOMAIN components[reference.component].secrets
         IN ResolveFrom(IF found
                        THEN Put(secrets, reference.secret_name,
                                 components[reference.component].secrets[
                                     reference.referenced_secret])
                        ELSE secrets,
                        references, k + 1, components)

\* SecretStore::resolve_references: every lookup reads the clone taken before
\* the loop
resolve_references(st) ==
    LET components == st
    IN [c \in DOMAIN st |->
           [st[c] EXCEPT !.secrets = ResolveFrom(@, st[c].references, 1, components)]]

VaultInit ==
    /\ ReactorIdle
    /\ dependency_graph = NoMap
    /\ GuardsIdle
    /\ ConstructIdle
    /\ LaterIdle
    /\ definitions \in SecretsDefinitions
    /\ vault \in VaultContents
    /\ vault_before = vault
    /\ existing_secrets = NoMap
    /\ store = NoMap
    /\ todo = <<>>
    /\ answers = NoMap
    /\ written = {}
    /\ populate_pc = "start"

\* populate: load the existing secrets of all components upfront; a failed
\* get counts as no secrets
LoadExisting ==
    /\ populate_pc = "start"
    /\ existing_secrets' = [c \in DOMAIN definitions |->
                               IF c \in DOMAIN vault THEN vault[c] ELSE NoMap]
    /\ todo' = Rounds(definitions, 1)
    /\ populate_pc' = "collect"
    /\ UNCHANGED <<image_vars, reactor_vars, world_vars, history_vars, dependency_graph,
                   guard_vars, construct_vars, later_vars, definitions, vault, vault_before, store,
                   answers, written>>

\* one round of the loop over the sorted secrets of a component: the override
\* question with its answer, and the generated value, pair or reference
CollectSecret ==
    /\ populate_pc = "collect"
    /\ todo # <<>>
    /\ LET component_name == todo[1][1]
           secret_name    == todo[1][2]
           existing       == existing_secrets[component_name]
           asked          == /\ ~is_reference(component_name, secret_name)
                             /\ secret_name \in DOMAIN existing
       IN \E answer \in BOOLEAN :
             /\ asked \/ answer
             /\ answers' = IF asked
                           THEN Put(answers, <<component_name, secret_name>>, answer)
                           ELSE answers
             /\ LET kept == IF asked /\ ~answer
                            THEN add_secret(store, component_name, secret_name,
                                            existing[secret_name])
                            ELSE store
                    made == generate_secret(component_name, secret_name)
                IN store' =
                     IF asked /\ ~answer THEN kept
                     ELSE CASE made.kind = "Value" ->
                                 add_secret(store, component_name, secret_name, made.value)
                            [] made.kind = "KeyPair" ->
                                 add_secret(
                                     add_secret(store, component_name,
                                                secret_name \o "_PRIVATE_KEY",
                                                made.private_key),
                                     component_name, secret_name \o "_PUBLIC_KEY",
                                     made.public_key)
                            [] made.kind = "Ref" ->
                                 add_reference(store, component_name, secret_name,
                                               made.component, made.secret)
    /\ todo' = Tail(todo)
    /\ populate_pc' = IF Tail(todo) = <<>> THEN "resolve" ELSE "collect"
    /\ UNCHANGED <<image_vars, reactor_vars, world_vars, history_vars, dependency_graph,
                   guard_vars, construct_vars, later_vars, definitions, vault, vault_before,
                   existing_secrets, written>>

\* store.resolve_references()
ResolveReferences ==
    /\ populate_pc = "resolve"
    /\ store' = resolve_references(store)
    /\ populate_pc' = "write"
    /\ UNCHANGED <<image_vars, reactor_vars, world_vars, history_vars, dependency_graph,
                   guard_vars, construct_vars, later_vars, definitions, vault, vault_before,
                   existing_secrets, todo, answers, written>>

\* one round of the last loop: vault.set replaces the component's secrets
WriteComponent(component_name) ==
    /\ populate_pc = "write"
    /\ component_name \in DOMAIN store \ written
    /\ vault' = Put(vault, component_name, store[component_name].secrets)
    /\ written' = written \cup {component_name}
    /\ UNCHANGED <<image_vars, reactor_vars, world_vars, history_vars, dependency_graph,
                   guard_vars, construct_vars, later_vars, definitions, vault_before,
                   existing_secrets, store, todo, answers, populate_pc>>

\* Ok(()) after the last loop
PopulateReturn ==
    /\ populate_pc = "write"
    /\ written = DOMAIN store
    /\ populate_pc' = "Ok"
    /\ UNCHANGED <<image_vars, reactor_vars, world_vars, history_vars, dependency_graph,
                   guard_vars, construct_vars, later_vars, definitions, vault, vault_before,
                   existing_secrets, store, todo, answers, written>>

VaultNext ==
    \/ LoadExisting
    \/ CollectSecret
    \/ ResolveReferences
    \/ \E component_name \in {"x", "y"} : WriteComponent(component_name)
    \/ PopulateReturn

SpecVault == VaultInit /\ [][VaultNext]_vars

----------------------------------------------------------------------------
(* Specification SpecValidate: SecretsDefinitions::validate_vault on the     *)
(* definitions of SpecVault, and on references that are not of the form      *)
(* component.name, against every content of the vault; the loops run in any  *)
(* order and any get may fail                                                *)

\* references whose path does not split into two parts
MalformedYSecrets ==
    {Put(NoMap, "k", [kind |-> "Ref", path |-> path]) :
        path \in {<<"x">>, <<"x", ".", "k", ".", "k">>}}

ValidatedDefinitions ==
    SecretsDefinitions
    \cup {Put(Put(NoMap, "x", xs), "y", ys) : xs \in XSecrets, ys \in MalformedYSecrets}

\* what the vault may hold when validate_vault is called: also one half of a
\* key pair
ValidatedVaultContents ==
    {Put(Put(NoMap, "x", Stored("x", plain \cup pair)), "y", Stored("y", yk)) :
        plain \in SUBSET {"j", "k"},
        pair \in SUBSET {"k_PRIVATE_KEY", "k_PUBLIC_KEY"},
        yk \in SUBSET {"k"}}

\* Vault::get of the file vault when the file can be read: the map of the
\* component, empty when it has none
VaultGet(v, component_name) ==
    IF component_name \in DOMAIN v THEN v[component_name] ELSE NoMap

\* the arms of validate_vault's match that only read vault_secrets: a key
\* pair needs one half only
SecretIsValidOneHalf(method, secret_name, secrets, ref_secrets) ==
    CASE method.kind = "KeyPair" ->
            \/ (secret_name \o "_PRIVATE_KEY") \in DOMAIN secrets
            \/ (secret_name \o "_PUBLIC_KEY") \in DOMAIN secrets
      [] method.kind = "Ref" ->
            /\ Len(Split(method.path, ".")) = 2
            /\ Text(Split(method.path, ".")[2]) \in DOMAIN ref_secrets
      [] OTHER -> secret_name \in DOMAIN secrets

\* the match of validate_vault on one secret: FALSE where it sets all_valid
\* to false; ref_secrets is what get returned for the referenced component
SecretIsValid(method, secret_name, secrets, ref_secrets) ==
    CASE method.kind = "KeyPair" ->
            /\ (secret_name \o "_PRIVATE_KEY") \in DOMAIN secrets
            /\ (secret_name \o "_PUBLIC_KEY") \in DOMAIN secrets
      [] method.kind = "Ref" ->
            /\ Len(Split(method.path, ".")) = 2
            /\ Text(Split(method.path, ".")[2]) \in DOMAIN ref_secrets
      [] OTHER -> secret_name \in DOMAIN secrets

ValidateInit ==
    /\ ReactorIdle
    /\ dependency_graph = NoMap
    /\ GuardsIdle
    /\ ConstructIdle
    /\ definitions \in ValidatedDefinitions
    /\ vault \in ValidatedVaultContents
    /\ vault_before = vault
    /\ existing_secrets = NoMap
    /\ store = NoMap
    /\ todo = <<>>
    /\ answers = NoMap
    /\ written = {}
    /\ populate_pc = "none"
    /\ all_valid = TRUE
    /\ vault_secrets = NoMap
    /\ unvisited = {}
    /\ unchecked = {}
    /\ component_at_hand = ""
    /\ validate_pc = "start"
    /\ LaterIdleExcept("validate")

\* validate_vault, up to its loop over the components
ValidateEnter ==
    /\ validate_pc = "start"
    /\ all_valid' = TRUE
    /\ unvisited' = DOMAIN definitions
    /\ validate_pc' = "components"
    /\ UNCHANGED <<validate_frame, vault_secrets,
                   unchecked, component_at_hand>>

\* one round of the loop over the components: get, with ? on its error
ValidateComponent(component_name) ==
    /\ validate_pc = "components"
    /\ component_name \in unvisited
    /\ \E got \in BOOLEAN :
          IF got
          THEN /\ vault_secrets' = VaultGet(vault, component_name)
               /\ component_at_hand' = component_name
               /\ unvisited' = unvisited \ {component_name}
               /\ unchecked' = DOMAIN definitions[component_name]
               /\ validate_pc' = IF DOMAIN definitions[component_name] = {}
                                 THEN "components" ELSE "secrets"
          ELSE /\ validate_pc' = "Err"
               /\ UNCHANGED <<vault_secrets, component_at_hand, unvisited, unchecked>>
    /\ UNCHANGED <<validate_frame, all_valid>>

\* one round of the loop over the secrets of the component; a reference of
\* the right form asks the vault for the referenced component
ValidateSecret(secret_name) ==
    /\ validate_pc = "secrets"
    /\ secret_name \in unchecked
    /\ LET method == definitions[component_at_hand][secret_name]
           asks   == method.kind = "Ref" /\ Len(Split(method.path, ".")) = 2
       IN \E got \in BOOLEAN :
             /\ asks \/ got
             /\ IF got
                THEN /\ all_valid' =
                          (all_valid /\
                           SecretIsValid(method, secret_name, vault_secrets,
                                         IF asks
                                         THEN VaultGet(vault, Text(Split(method.path, ".")[1]))
                                         ELSE NoMap))
                     /\ unchecked' = unchecked \ {secret_name}
                     /\ validate_pc' = IF unchecked \ {secret_name} = {}
                                       THEN "components" ELSE "secrets"
                ELSE /\ validate_pc' = "Err"
                     /\ UNCHANGED <<all_valid, unchecked>>
    /\ UNCHANGED <<validate_frame, vault_secrets,
                   unvisited, component_at_hand>>

\* Ok(all_valid)
ValidateReturn ==
    /\ validate_pc = "components"
    /\ unvisited = {}
    /\ validate_pc' = "Ok"
    /\ UNCHANGED <<validate_frame, all_valid,
                   vault_secrets, unvisited, unchecked, component_at_hand>>

ValidateNext ==
    \/ ValidateEnter
    \/ \E component_name \in {"x", "y"} : ValidateComponent(component_name)
    \/ \E secret_name \in {"j", "k"} : ValidateSecret(secret_name)
    \/ ValidateReturn

SpecValidate == ValidateInit /\ [][ValidateNext]_vars

----------------------------------------------------------------------------
(* Specification SpecStores: get, set and remove of the three Vault          *)
(* implementations, in any order, on one product with two components and     *)
(* two environments, from an empty store                                     *)

\* a secret value, as its characters
SecretValues == {<<"a">>, <<"b">>}

\* the maps that set is called with
SecretMaps ==
    {NoMap, Put(NoMap, "k", <<"a">>), Put(Put(NoMap, "k", <<"b">>), "j", <<"a">>)}

VaultKeys == {<<"p", c, e>> : c \in {"c1", "c2"}, e \in {"dev", "prod"}}

\* Result: Ok(secrets) or Err
Ok(secrets) == [ok |-> TRUE, secrets |-> secrets]
Err == [ok |-> FALSE]

\* HashMap::remove, serde_json's Map::remove
Without(map, key) == [k \in DOMAIN map \ {key} |-> map[k]]

\* FileVault::get_vault_path
get_vault_path(product_name, environment) == <<product_name, environment \o ".json">>

\* FileVault::load_secrets: the object in the file, {} when there is no file
load_secrets(fs, path) == IF path \in DOMAIN fs THEN fs[path] ELSE NoMap

\* FileVault::get
FileGet(fs, key) ==
    LET secrets == load_secrets(fs, get_vault_path(key[1], key[3]))
    IN Ok(IF key[2] \in DOMAIN secrets THEN secrets[key[2]] ELSE NoMap)

\* a FileVault::set that keeps the secrets of the component it does not
\* overwrite
FileSetMerges(fs, key, secrets) ==
    LET path    == get_vault_path(key[1], key[3])
        current == load_secrets(fs, path)
        old     == IF key[2] \in DOMAIN current THEN current[key[2]] ELSE NoMap
    IN Put(fs, path,
           Put(current, key[2],
               [k \in DOMAIN old \cup DOMAIN secrets |->
                   IF k \in DOMAIN secrets THEN secrets[k] ELSE old[k]]))

\* FileVault::set: the files after it
FileSet(fs, key, secrets) ==
    LET path    == get_vault_path(key[1], key[3])
        current == load_secrets(fs, path)
    IN Put(fs, path, Put(current, key[2], secrets))

\* FileVault::remove: the files after it
FileRemove(fs, key) ==
    LET path == get_vault_path(key[1], key[3])
    IN IF path \notin DOMAIN fs THEN fs
       ELSE Put(fs, path, Without(load_secrets(fs, path), key[2]))

\* DotenvVault.components: the components of stack.spec.yaml with a location
DotenvComponents == {"c1"}

\* DotenvVault::get_env_path
get_env_path(component_name) ==
    IF component_name \in DotenvComponents
    THEN Some(<<component_name, ".env.secrets">>) ELSE OptionNone

\* save_dotenv: one line KEY="VALUE" per secret
save_dotenv(env_map) ==
    [key \in DOMAIN env_map |-> <<"\"">> \o env_map[key] \o <<"\"">>]

\* load_dotenv: the value of a line, without a pair of enclosing quotes
Unquote(value) ==
    IF Len(value) >= 1 /\ value[1] = "\"" /\ value[Len(value)] = "\""
    THEN SubSeq(value, 2, Len(value) - 1) ELSE value

load_dotenv(lines) == [key \in DOMAIN lines |-> Unquote(lines[key])]

\* DotenvVault::get
DotenvGet(envs, key) ==
    LET env_path == get_env_path(key[2])
    IN IF env_path # OptionNone /\ Unwrap(env_path) \in DOMAIN envs
       THEN Ok(load_dotenv(envs[Unwrap(env_path)]))
       ELSE Ok(NoMap)

\* DotenvVault::set: the files after it
DotenvSet(envs, key, secrets) ==
    LET env_path == get_env_path(key[2])
    IN IF env_path # OptionNone THEN Put(envs, Unwrap(env_path), save_dotenv(secrets))
       ELSE envs

\* DotenvVault::remove: the files after it
DotenvRemove(envs, key) ==
    LET env_path == get_env_path(key[2])
    IN IF env_path # OptionNone THEN Without(envs, Unwrap(env_path)) ELSE envs

\* the item of a component and an environment in the 1Password vault of the
\* product
OpItem(key) == <<key[1], key[2] \o "-" \o key[3]>>

\* OnePassword::get: op item get fails on an item that does not exist
OnePasswordGet(items, key) ==
    IF OpItem(key) \in DOMAIN items THEN Ok(items[OpItem(key)]) ELSE Err

\* OnePassword::set: op item edit assigns the given fields of an existing
\* item, op item create makes the item
OnePasswordSet(items, key, secrets) ==
    LET old == IF OpItem(key) \in DOMAIN items THEN items[OpItem(key)] ELSE NoMap
    IN Put(items, OpItem(key),
           [k \in DOMAIN old \cup DOMAIN secrets |->
               IF k \in DOMAIN secrets THEN secrets[k] ELSE old[k]])

\* OnePassword::remove: op item delete
OnePasswordRemove(items, key) == Without(items, OpItem(key))

StoresInit ==
    /\ ReactorIdle
    /\ dependency_graph = NoMap
    /\ GuardsIdle
    /\ ConstructIdle
    /\ PopulateIdle
    /\ LaterIdleExcept("stores")
    /\ backend \in {"file", "dotenv", "1password"}
    /\ files = NoMap
    /\ env_files = NoMap
    /\ op_items = NoMap
    /\ last_set = NoMap
    /\ last_get = NoMap

\* Vault::set
VaultSet(key, secrets) ==
    /\ backend # "none"
    /\ files' = IF backend = "file" THEN FileSet(files, key, secrets) ELSE files
    /\ env_files' = IF backend = "dotenv" THEN DotenvSet(env_files, key, secrets)
                    ELSE env_files
    /\ op_items' = IF backend = "1password" THEN OnePasswordSet(op_items, key, secrets)
                   ELSE op_items
    /\ last_set' = Put(last_set, key, secrets)
    /\ UNCHANGED <<store_frame,
                   backend, last_get>>

\* Vault::remove
VaultRemove(key) ==
    /\ backend # "none"
    /\ files' = IF backend = "file" THEN FileRemove(files, key) ELSE files
    /\ env_files' = IF backend = "dotenv" THEN DotenvRemove(env_files, key) ELSE env_files
    /\ op_items' = IF backend = "1password" THEN OnePasswordRemove(op_items, key)
                   ELSE op_items
    /\ last_set' = Without(last_set, key)
    /\ UNCHANGED <<store_frame,
                   backend, last_get>>

\* Vault::get
VaultGetCall(key) ==
    /\ backend # "none"
    /\ last_get' = [key |-> key,
               result |-> CASE backend = "file" -> FileGet(files, key)
                            [] backend = "dotenv" -> DotenvGet(env_files, key)
                            [] backend = "1password" -> OnePasswordGet(op_items, key)]
    /\ UNCHANGED <<store_frame,
                   backend, files, env_files, op_items, last_set>>

StoresNext ==
    \E key \in VaultKeys :
        \/ \E secrets \in SecretMaps : VaultSet(key, secrets)
        \/ VaultRemove(key)
        \/ VaultGetCall(key)

SpecStores == StoresInit /\ [][StoresNext]_vars

----------------------------------------------------------------------------
(* Specification SpecMatcher: PathMatcher::from_gitignore on a short list    *)
(* of lines, then matches on paths below the root. A line and a path string  *)
(* are sequences of tokens: "!", "/", "#" and names without wildcards; a     *)
(* path is the sequence of its components                                    *)

Names == {"a", "b"}

\* the lines the .gitignore files are drawn from
GitignoreLines ==
    {<<"a">>, <<"b">>, <<"b", "/">>, <<"!", "a">>, <<"!", "b">>, <<"!", "a", "/">>,
     <<"a", "/", "b">>, <<"/", "a">>, <<"#", "a">>}

\* the .gitignore files, parents first: up to two lines
GitignoreFiles ==
    {<<>>} \cup {<<l>> : l \in GitignoreLines}
           \cup {<<l, m>> : l \in GitignoreLines, m \in GitignoreLines}

\* the paths that are asked about, relative to the root
MatcherPaths ==
    {<<"a">>, <<"b">>, <<"a", "a">>, <<"a", "b">>, <<"b", "a">>, <<"b", "b">>,
     <<"a", "b", "a">>, <<"a", "b", "b">>}

\* how many paths one run asks about
MaxQueries == 2

\* str::trim_start_matches
RECURSIVE trim_start_matches(_, _)
trim_start_matches(text, ch) ==
    IF text # <<>> /\ Head(text) = ch THEN trim_start_matches(Tail(text), ch) ELSE text

\* str::trim_end_matches
RECURSIVE trim_end_matches(_, _)
trim_end_matches(text, ch) ==
    IF text # <<>> /\ text[Len(text)] = ch
    THEN trim_end_matches(SubSeq(text, 1, Len(text) - 1), ch) ELSE text

\* Pattern::new: the glob is the cleaned pattern, after "**/" unless it
\* starts with "/"
PatternNew(pattern) ==
    LET cleaned_pattern == trim_end_matches(trim_start_matches(pattern, "!"), "/")
    IN [pattern |-> IF cleaned_pattern # <<>> /\ Head(cleaned_pattern) = "/"
                    THEN cleaned_pattern ELSE <<"**/">> \o cleaned_pattern,
        original_pattern |-> pattern,
        is_negation |-> pattern # <<>> /\ Head(pattern) = "!",
        is_directory_only |-> pattern # <<>> /\ pattern[Len(pattern)] = "/"]

\* glob::Pattern::matches on a pattern without wildcards but a leading "**/":
\* the whole string, or what follows one of its separators, is the rest of
\* the pattern
GlobMatches(glob, path_str) ==
    IF glob # <<>> /\ Head(glob) = "**/"
    THEN \E i \in 1..(Len(path_str) + 1) :
            /\ i = 1 \/ path_str[i - 1] = "/"
            /\ SubSeq(path_str, i, Len(path_str)) = Tail(glob)
    ELSE glob = path_str

\* Path::to_str of a relative path
RECURSIVE PathStr(_)
PathStr(path) ==
    IF path = <<>> THEN <<>>
    ELSE IF Len(path) = 1 THEN path
    ELSE PathStr(SubSeq(path, 1, Len(path) - 1)) \o <<"/", path[Len(path)]>>

\* Pattern::matches
PatternMatches(pattern, path, is_dir) ==
    IF pattern.is_directory_only /\ ~is_dir THEN FALSE
    ELSE GlobMatches(pattern.pattern, PathStr(path))

\* the loop over the patterns: matched after the patterns from k on
RECURSIVE PatternLoop(_, _, _, _, _)
PatternLoop(patterns, k, path, is_dir, matched) ==
    IF k > Len(patterns) THEN matched
    ELSE PatternLoop(patterns, k + 1, path, is_dir,
                     IF PatternMatches(patterns[k], path, is_dir)
                     THEN ~patterns[k].is_negation ELSE matched)

\* the loop over Path::ancestors: the path itself first, the empty path last
RECURSIVE AncestorLoop(_, _, _)
AncestorLoop(patterns, ancestor, matched) ==
    LET after == PatternLoop(patterns, 1, ancestor, TRUE, matched)
    IN IF ancestor = <<>> THEN after
       ELSE AncestorLoop(patterns, SubSeq(ancestor, 1, Len(ancestor) - 1), after)

\* PathMatcher::matches on a path below the root
PathMatcherMatches(patterns, relative_path, is_dir) ==
    LET matched == AncestorLoop(patterns, relative_path, FALSE)
    IN IF ~matched THEN PatternLoop(patterns, 1, relative_path, is_dir, matched)
       ELSE matched

\* the lines that from_gitignore keeps: not empty, no comment
RECURSIVE KeptLines(_)
KeptLines(lines) ==
    IF lines = <<>> THEN <<>>
    ELSE IF Head(lines) = <<>> \/ Head(Head(lines)) = "#" THEN KeptLines(Tail(lines))
    ELSE <<Head(lines)>> \o KeptLines(Tail(lines))

MatcherInit ==
    /\ ReactorIdle
    /\ dependency_graph = NoMap
    /\ GuardsIdle
    /\ ConstructIdle
    /\ PopulateIdle
    /\ LaterIdleExcept("matcher")
    /\ gitignore \in GitignoreFiles
    /\ match_patterns = <<>>
    /\ queried = NoMap
    /\ matcher_pc = "start"

\* PathMatcher::from_gitignore
FromGitignore ==
    /\ matcher_pc = "start"
    /\ match_patterns' = [k \in DOMAIN KeptLines(gitignore) |->
                             PatternNew(KeptLines(gitignore)[k])]
    /\ matcher_pc' = "ready"
    /\ UNCHANGED <<matcher_frame, gitignore, queried>>

\* PathMatcher::matches on a path that is a directory or not
Matches(path, is_dir) ==
    /\ matcher_pc = "ready"
    /\ path \notin DOMAIN queried
    /\ Cardinality(DOMAIN queried) < MaxQueries
    /\ queried' = Put(queried, path,
                      [is_dir |-> is_dir,
                       matched |-> PathMatcherMatches(match_patterns, path, is_dir)])
    /\ UNCHANGED <<matcher_frame, gitignore, match_patterns, matcher_pc>>

MatcherNext ==
    \/ FromGitignore
    \/ \E path \in MatcherPaths, is_dir \in BOOLEAN : Matches(path, is_dir)

SpecMatcher == MatcherInit /\ [][MatcherNext]_vars

----------------------------------------------------------------------------
(* Specification SpecManifests: ContainerReactor::build_manifests, run any   *)
(* number of times on the cluster manifests of two components, over an       *)
(* output directory that holds what an earlier run may have left             *)

\* the YAML files of a k8s directory; the second is a Secret with a data block
ManifestFiles == {"deployment.yaml", "secret.yaml"}

\* SealedSecretsEncoder::encode_file seals a file with the line kind: Secret
\* and the line data:
IsSecretManifest(file) == file = "secret.yaml"

\* K8ComponentManifests::new for a component with a k8s directory: the name
\* is <priority>_<component>, the manifests are the .yaml files of the
\* directory
K8ComponentManifestsNew(priority, component_name, is_installation, yamls) ==
    [name |-> ToString(priority) \o "_" \o component_name,
     is_installation |-> is_installation,
     manifests |-> yamls]

\* the component list from_product_dir can register for one component: none
\* without a k8s directory
RegisteredFor(priority, component_name) ==
    {<<>>} \cup {<<K8ComponentManifestsNew(priority, component_name, inst, yamls)>> :
                   inst \in BOOLEAN, yamls \in SUBSET ManifestFiles}

\* what an earlier run, with other components, may have left
StaleFiles == {<<"1_api", "deployment.yaml">>, <<"1_api", "old.yaml">>, <<"0_gone", "deployment.yaml">>}

\* a build_manifests that leaves the output directory as it finds it
KeepOutput(dir_files) == dir_files

\* std::fs::remove_dir_all on the output directory: nothing is left
remove_dir_all(dir_files) == NoMap

\* Artefact::render_to_file: the rendered template is written to the output
\* path of the artefact
ArtefactRenderToFile(dir_files, output_path) == Put(dir_files, output_path, "rendered")

\* K8Encoder::encode_file after a kubeseal that succeeds: the sealed encoder
\* replaces a Secret by what kubeseal wrote, the other leaves the file
EncodeFile(dir_files, output_path, encoder) ==
    IF encoder = "sealed" /\ IsSecretManifest(output_path[2])
    THEN Put(dir_files, output_path, "sealed") ELSE dir_files

\* K8ManifestArtefact::render_to_file for the manifests of a component that
\* are still to do
RECURSIVE RenderedFiles(_, _, _, _)
RenderedFiles(dir_files, name, todo_manifests, encoder) ==
    IF todo_manifests = {} THEN dir_files
    ELSE LET f == CHOOSE x \in todo_manifests : TRUE
             output_path == <<name, f>>
         IN RenderedFiles(EncodeFile(ArtefactRenderToFile(dir_files, output_path),
                                     output_path, encoder),
                          name, todo_manifests \ {f}, encoder)

ManifestsInit ==
    /\ ReactorIdle
    /\ dependency_graph = NoMap
    /\ GuardsIdle
    /\ ConstructIdle
    /\ PopulateIdle
    /\ LaterIdleExcept("manifests")
    /\ k8s_encoder \in {"noop", "sealed"}
    /\ \E first \in RegisteredFor(1, "api"), second \in RegisteredFor(2, "ingress") :
          manifest_components = first \o second
    /\ \E stale \in SUBSET StaleFiles :
          /\ output_files = [path \in stale |-> "stale"]
          /\ output_dirs = {path[1] : path \in stale}
    /\ output_before = {}
    /\ component_cursor = 0
    /\ manifests_pc = "idle"

\* build_manifests up to its loop: the output directory is removed
BuildManifestsEnter ==
    /\ manifests_pc \in {"idle", "returned"}
    /\ output_before' = DOMAIN output_files
    /\ output_files' = remove_dir_all(output_files)
    /\ output_dirs' = {}
    /\ component_cursor' = 0
    /\ manifests_pc' = "rendering"
    /\ UNCHANGED <<manifest_frame, k8s_encoder, manifest_components>>

\* one round of the loop over the components: an installation is passed
\* over; kubeseal may fail, and encode_file's error is a panic
RenderComponent ==
    /\ manifests_pc = "rendering"
    /\ component_cursor < Len(manifest_components)
    /\ LET component == manifest_components[component_cursor + 1]
       IN IF component.is_installation
          THEN /\ component_cursor' = component_cursor + 1
               /\ UNCHANGED <<output_dirs, output_files, manifests_pc>>
          ELSE \E kubeseal_ok \in BOOLEAN :
                  /\ output_dirs' = output_dirs \cup {component.name}
                  /\ IF \/ kubeseal_ok
                        \/ k8s_encoder # "sealed"
                        \/ \A f \in component.manifests : ~IsSecretManifest(f)
                     THEN /\ output_files' =
                                RenderedFiles(output_files, component.name, component.manifests, k8s_encoder)
                          /\ component_cursor' = component_cursor + 1
                          /\ UNCHANGED manifests_pc
                     ELSE /\ output_files' =
                                RenderedFiles(output_files, component.name, component.manifests, "noop")
                          /\ manifests_pc' = "panic"
                          /\ UNCHANGED component_cursor
    /\ UNCHANGED <<manifest_frame, k8s_encoder, manifest_components, output_before>>

\* the loop is over: Ok(())
BuildManifestsReturn ==
    /\ manifests_pc = "rendering"
    /\ component_cursor = Len(manifest_components)
    /\ manifests_pc' = "returned"
    /\ UNCHANGED <<manifest_frame, k8s_encoder, manifest_components, output_dirs,
                   output_files, output_before, component_cursor>>

ManifestsNext ==
    \/ BuildManifestsEnter
    \/ RenderComponent
    \/ BuildManifestsReturn

SpecManifests == ManifestsInit /\ [][ManifestsNext]_vars

----------------------------------------------------------------------------
(* Specification SpecTemplate: ComponentBuildSpec::from_yaml on the entry of *)
(* a RustBinary component, with the variables of the active environment. A   *)
(* string is the sequence of its tokens: "{{", "}}", " " and words           *)

\* the string values an entry is written with
TemplateStrings ==
    {<<"x">>,
     <<"{{", " ", "V", " ", "}}">>,
     <<"{{", "V", "}}">>,
     <<"{{", " ", "U", " ", "}}">>,
     <<"{{", " ", "V", " ", "}}", "/", "x">>,
     <<"x", "{{", " ", "V", " ", "}}">>}

\* variables.yaml: one section per environment; U is defined in none
VariablesFile ==
    Put(Put(NoMap, "dev", Put(NoMap, <<"V">>, <<"dev-value">>)),
        "prod", Put(NoMap, <<"V">>, <<"prod-value">>))

\* Variables::get: the value of the name in the section of the environment
VariablesGet(section, var_name) ==
    IF section \in DOMAIN VariablesFile /\ var_name \in DOMAIN VariablesFile[section]
    THEN Some(VariablesFile[section][var_name]) ELSE OptionNone

\* str::trim
RECURSIVE Trim(_)
Trim(text) ==
    IF text # <<>> /\ Head(text) = " " THEN Trim(Tail(text))
    ELSE IF text # <<>> /\ text[Len(text)] = " " THEN Trim(SubSeq(text, 1, Len(text) - 1))
    ELSE text

\* ComponentBuildSpec::process_template_string: Panic when the variable is
\* not found
process_template_string(input, section) ==
    IF input # <<>> /\ Head(input) = "{{" /\ input[Len(input)] = "}}"
    THEN LET var_name == Trim(trim_end_matches(trim_start_matches(input, "{{"), "}}"))
         IN IF VariablesGet(section, var_name) = OptionNone THEN Panic
            ELSE [panic |-> FALSE, text |-> Unwrap(VariablesGet(section, var_name))]
    ELSE [panic |-> FALSE, text |-> input]

\* the keys of the entry that from_yaml reads here; mount_point may be absent
YamlSections ==
    UNION {[keys -> TemplateStrings] :
             keys \in {{"location", "component_name"},
                       {"location", "component_name", "mount_point"}}}

FromYamlInit ==
    /\ ReactorIdle
    /\ dependency_graph = NoMap
    /\ GuardsIdle
    /\ ConstructIdle
    /\ PopulateIdle
    /\ LaterIdleExcept("from_yaml")
    /\ active_environment \in {"dev", "prod"}
    /\ yaml_section \in YamlSections
    /\ component_spec = NoMap
    /\ from_yaml_pc = "start"

\* ComponentBuildSpec::from_yaml: the location of the build type is taken as
\* written, component_name and mount_point go through
\* process_template_string
FromYaml ==
    /\ from_yaml_pc = "start"
    /\ LET component_name ==
               process_template_string(yaml_section["component_name"],
                                       active_environment)
           mount_point ==
               IF "mount_point" \in DOMAIN yaml_section
               THEN Some(process_template_string(yaml_section["mount_point"],
                                                 active_environment))
               ELSE OptionNone
       IN IF component_name.panic \/ \E processed \in mount_point : processed.panic
          THEN /\ from_yaml_pc' = "panic"
               /\ UNCHANGED component_spec
          ELSE /\ from_yaml_pc' = "parsed"
               /\ component_spec' =
                      [build_type |-> [kind |-> "RustBinary",
                                       location |-> yaml_section["location"]],
                       component_name |-> component_name.text,
                       mount_point |-> {processed.text : processed \in mount_point}]
    /\ UNCHANGED <<yaml_frame, active_environment, yaml_section>>

FromYamlNext == FromYaml

SpecTemplate == FromYamlInit /\ [][FromYamlNext]_vars

----------------------------------------------------------------------------
(* Specification SpecChange: the watcher closure and                         *)
(* ContainerReactor::test_if_siginificant_change on two images, over files   *)
(* below the product directory. A path is the sequence of its components     *)

\* the regular files the watcher can report
WatchedFiles == {<<"a", "x">>, <<"b", "x">>, <<"b", "y">>, <<"c", "y">>}

\* std::fs::canonicalize on a path without links: "." and ".." are resolved
RECURSIVE Canonicalize(_)
Canonicalize(path) ==
    IF path = <<>> THEN <<>>
    ELSE LET front == Canonicalize(SubSeq(path, 1, Len(path) - 1))
             last  == path[Len(path)]
         IN IF last = "." THEN front
            ELSE IF last = ".." THEN SubSeq(front, 1, Len(front) - 1)
            ELSE Append(front, last)

\* Path::starts_with
StartsWith(path, base) ==
    Len(base) <= Len(path) /\ SubSeq(path, 1, Len(base)) = base

\* DockerImage::get_context_path: None without a Dockerfile, else the
\* directory of the Dockerfile and the canonical context directory
get_context_path(image) ==
    IF image.docker_file = OptionNone THEN OptionNone
    ELSE LET dockerfile_path == Unwrap(image.docker_file)
             dockerfile_dir  == SubSeq(dockerfile_path, 1, Len(dockerfile_path) - 1)
         IN Some(<<dockerfile_dir,
                   IF image.context_dir = OptionNone THEN dockerfile_dir
                   ELSE Canonicalize(dockerfile_dir \o Unwrap(image.context_dir))>>)

\* an is_any_file_in_context that gives up without a Dockerfile before it
\* looks at the watch patterns
IsAnyFileInContextNoWatch(image, file_paths) ==
    /\ get_context_path(image) # OptionNone
    /\ \/ \E watch \in image.watch : \E file \in file_paths :
             PathMatcherMatches(watch, file, FALSE)
       \/ \E file_path \in file_paths :
             \/ StartsWith(Canonicalize(file_path), Unwrap(get_context_path(image))[2])
             \/ StartsWith(Canonicalize(file_path), Unwrap(get_context_path(image))[1])

\* DockerImage::is_any_file_in_context on paths of regular files
IsAnyFileInContext(image, file_paths) ==
    \/ \E watch \in image.watch : \E file \in file_paths :
          PathMatcherMatches(watch, file, FALSE)
    \/ /\ get_context_path(image) # OptionNone
       /\ \E file_path \in file_paths :
             \/ StartsWith(Canonicalize(file_path), Unwrap(get_context_path(image))[2])
             \/ StartsWith(Canonicalize(file_path), Unwrap(get_context_path(image))[1])

\* the first image is built from a/Dockerfile, with or without a context
\* directory and watch patterns
BuiltImages ==
    {[docker_file |-> Some(<<"a", "Dockerfile">>), context_dir |-> context_dir,
      watch |-> watch, should_ignore_in_devmode |-> ignore, should_rebuild |-> rebuild] :
        context_dir \in {OptionNone, Some(<<".">>), Some(<<"..", "b">>)},
        watch \in {OptionNone, Some(<<PatternNew(<<"c", "/">>), PatternNew(<<"y">>)>>)},
        ignore \in BOOLEAN, rebuild \in BOOLEAN}

\* the second image is pulled: no Dockerfile, with or without watch patterns
PulledImages ==
    {[docker_file |-> OptionNone, context_dir |-> OptionNone,
      watch |-> watch, should_ignore_in_devmode |-> ignore, should_rebuild |-> rebuild] :
        watch \in {OptionNone, Some(<<PatternNew(<<"x">>)>>)},
        ignore \in BOOLEAN, rebuild \in BOOLEAN}

ChangeInit ==
    /\ ReactorIdle
    /\ dependency_graph = NoMap
    /\ GuardsIdle
    /\ ConstructIdle
    /\ PopulateIdle
    /\ LaterIdleExcept("changes")
    /\ \E built \in BuiltImages, pulled \in PulledImages :
          change_images = <<built, pulled>>
    /\ pending_changes = {}
    /\ tested_files = {}
    /\ significant_change = OptionNone
    /\ change_pc = "watching"
    /\ existing_files = WatchedFiles
    /\ watch_rx = {}

\* the closure of setup_file_watcher: the files of the events are added to
\* changed_files
WatcherReports(paths) ==
    /\ change_pc = "watching"
    /\ paths # {}
    /\ pending_changes' = pending_changes \cup paths
    /\ UNCHANGED <<change_frame, change_images, tested_files, significant_change,
                   change_pc, existing_files, watch_rx>>

\* ContainerReactor::test_if_siginificant_change
TestIfSignificantChange ==
    /\ change_pc = "watching"
    /\ tested_files' = pending_changes
    /\ pending_changes' = {}
    /\ LET affected ==
              {k \in DOMAIN change_images :
                  /\ ~change_images[k].should_ignore_in_devmode
                  /\ IsAnyFileInContext(change_images[k], pending_changes)}
       IN /\ change_images' =
                [k \in DOMAIN change_images |->
                    IF k \in affected
                    THEN [change_images[k] EXCEPT !.should_rebuild = TRUE]
                    ELSE change_images[k]]
          /\ significant_change' = Some(affected # {})
    /\ UNCHANGED <<change_frame, change_pc, existing_files, watch_rx>>

\* the rebuild of an image takes its mark away
ImageRebuilt(k) ==
    /\ change_pc = "watching"
    /\ change_images[k].should_rebuild
    /\ change_images' = [change_images EXCEPT ![k].should_rebuild = FALSE]
    /\ UNCHANGED <<change_frame, pending_changes, tested_files, significant_change,
                   change_pc, existing_files, watch_rx>>

ChangeNext ==
    \/ \E paths \in SUBSET WatchedFiles : WatcherReports(paths)
    \/ TestIfSignificantChange
    \/ \E k \in DOMAIN change_images : ImageRebuilt(k)

SpecChange == ChangeInit /\ [][ChangeNext]_vars

----------------------------------------------------------------------------
(* Specification SpecShutdownFair: Spec with the scheduling that a shutdown *)
(* relies on: the Reactor's loops go on, time passes, every image task is   *)
(* scheduled, and a container exits once its task has sent it SIGTERM       *)

\* the process in the container exits on the SIGTERM that its task has sent
ExitOnSigterm(i) == task[i] = "terminating" /\ ContainerExit(i)

ShutdownFairness ==
    /\ WF_vars(ShutdownSleepEnds)
    /\ WF_vars(ShutdownTick)
    /\ WF_vars(DeadlineElapse)
    /\ WF_vars(WaitHandlesJoined)
    /\ WF_vars(WaitHandlesTimeout)
    /\ WF_vars(LoopTest)
    /\ WF_vars(\E exists \in BOOLEAN : Cleanup(exists))
    /\ \A i \in DOMAIN DevStack :
          /\ WF_vars(TaskSpawn(i))
          /\ WF_vars(TaskChildExited(i))
          /\ WF_vars(TaskTerminate(i))
          /\ WF_vars(TaskTerminated(i))
          /\ WF_vars(TaskReturn(i))
          /\ WF_vars(ExitOnSigterm(i))

SpecShutdownFair == Init /\ [][Next]_vars /\ ShutdownFairness

----------------------------------------------------------------------------
(* Specification SpecWatchFair: the watcher's channel, the closure of        *)
(* setup_file_watcher and handle_file_changes in the monitor loop, on the    *)
(* two images of SpecChange, with the monitor loop's 10 ms timer as fairness *)

\* the files that are created, modified and removed
EventFiles == {<<"a", "x">>, <<"c", "y">>}

EventKinds == {"create", "modify", "remove"}

\* PathMatcher::from_gitignore on a .gitignore with the line `c/`
WatchGitignore == <<PatternNew(<<"c", "/">>)>>

\* the paths the closure hands on: not git-ignored, and a regular file at the
\* time the closure runs
ReportedPaths(paths) ==
    {path \in paths :
        /\ ~PathMatcherMatches(WatchGitignore, path, FALSE)
        /\ path \in existing_files}

WatchInit ==
    /\ ReactorIdle
    /\ dependency_graph = NoMap
    /\ GuardsIdle
    /\ ConstructIdle
    /\ PopulateIdle
    /\ LaterIdleExcept("changes")
    /\ \E built \in BuiltImages, pulled \in PulledImages :
          change_images = <<built, pulled>>
    /\ pending_changes = {}
    /\ tested_files = {}
    /\ significant_change = OptionNone
    /\ change_pc = "watching"
    /\ existing_files \in SUBSET EventFiles
    /\ watch_rx = {}

\* a file below the product directory is created, modified or removed; the
\* notify watcher sends the event with its path
FileEvent(kind, path) ==
    /\ change_pc = "watching"
    /\ IF kind = "create" THEN path \notin existing_files
       ELSE path \in existing_files
    /\ existing_files' = IF kind = "remove" THEN existing_files \ {path}
                         ELSE existing_files \cup {path}
    /\ watch_rx' = watch_rx \cup {path}
    /\ UNCHANGED <<change_frame, change_images, pending_changes, tested_files,
                   significant_change, change_pc>>

\* handle_file_changes with stopping = false: the closure takes every event
\* out of the channel and pushes the paths it hands on to changed_files;
\* when there is one, test_if_siginificant_change follows
HandleFileChanges ==
    /\ change_pc = "watching"
    /\ watch_rx # {}
    /\ watch_rx' = {}
    /\ LET changed_files == pending_changes \cup ReportedPaths(watch_rx)
           affected ==
              {k \in DOMAIN change_images :
                  /\ ~change_images[k].should_ignore_in_devmode
                  /\ IsAnyFileInContext(change_images[k], changed_files)}
       IN IF ReportedPaths(watch_rx) = {}
          THEN UNCHANGED <<change_images, pending_changes, tested_files,
                           significant_change>>
          ELSE /\ tested_files' = changed_files
               /\ pending_changes' = {}
               /\ change_images' =
                    [k \in DOMAIN change_images |->
                        IF k \in affected
                        THEN [change_images[k] EXCEPT !.should_rebuild = TRUE]
                        ELSE change_images[k]]
               /\ significant_change' = Some(affected # {})
    /\ UNCHANGED <<change_frame, change_pc, existing_files>>

WatchNext ==
    \/ \E kind \in EventKinds, path \in EventFiles : FileEvent(kind, path)
    \/ HandleFileChanges
    \/ \E k \in {1, 2} : ImageRebuilt(k)

SpecWatchFair == WatchInit /\ [][WatchNext]_vars /\ WF_vars(HandleFileChanges)

----------------------------------------------------------------------------
(* Properties of the dev loop, stated for Spec *)

\* launch is past the monitor phase: back at the loop test, in cleanup, or
\* returned
MonitorReturned == pc \in {"loop", "cleanup", "done"}

\* C4: after a cycle that launched images, launch starts another supervisor
\* cycle only when that cycle ended because of a significant change; a
\* monitor phase that ends because images finished or because of an
\* interrupt is followed by cleanup, never by a further cycle.
RestartOnlyOnChange ==
    [][(pc = "loop" /\ pc' = "kill_clean" /\ cycle > 0 /\ started # <<>>)
           => break_type = "FileChanged"]_vars

\* C5: when the monitor phase returns without an interrupt and without a
\* significant change while some launched image is Finished, then
\* kill_and_clean(true) has run in that monitor phase.
FinishedForcesShutdown ==
    [][(/\ pc \in {"monitor", "wait_handles"}
        /\ pc' = "loop"
        /\ ~stopping
        /\ break_type' # "FileChanged"
        /\ AnyFinished(statuses'))
           => forced']_vars

\* C6: once terminate was broadcast for an interrupt of the monitor phase,
\* the 5 s deadline has elapsed, the monitor phase has returned and every
\* live task has read the terminate message, each image task started by this
\* launch call has returned or its container is not running any more.
ShutdownSafety ==
    (/\ interrupted = "monitor"
     /\ deadline
     /\ MonitorReturned
     /\ \A i \in ImageIds : task[i] # "spawned" /\ term_pending[i] = 0)
        => \A i \in ImageIds : task[i] \in {"none", "returned"} \/ ~container[i]

\* C7: whenever launch has returned after create_network ran, delete_network
\* has run: the network was inspected and, if it exists, removed.
NetworkRemovedOnExit ==
    (pc = "done" /\ "create_network" \in net_cmds)
        => /\ "delete_network" \in net_cmds
           /\ network # "unknown"
           /\ network = "exists" => "rm" \in net_cmds

\* C9: was_recently_rebuild of an image stays true from its successful build
\* until the launch phase that considers the image.
RecentlyRebuiltUntilLaunch ==
    \A i \in awaiting_launch : was_recently_rebuild[i]

\* the images that are not dev-ignored
NonIgnored == {i \in ImageIds : ~dev_ignore_image[i]}

\* what holds of a cycle that began with only Y = 2 marked for rebuild, X = 1
\* and Y both not ignored: kill_and_clean(false) cleaned Y only, build ran
\* Image.build for Y only, and after a successful build launch_images started
\* Y only
OnlyMarkedImageCycled ==
    (NonIgnored = {1, 2} /\ marked = {2}) =>
        /\ pc # "kill_clean" => cleaned = {2}
        /\ pc \notin {"kill_clean", "build"} =>
               Len(build_log) = 1 /\ build_log[1][1] = 2
        /\ (/\ pc \notin {"kill_clean", "build", "build_wait", "prepare", "launch"}
            /\ build_log # <<>>
            /\ build_log[1][2]) => started = <<2>>

\* C3: with X = 1 and Y = 2 both not ignored, a monitor tick that reads only
\* changes outside both build contexts marks nothing for rebuild and does not
\* end the cycle with FileChanged; a tick that reads a change inside Y's
\* context only marks Y only and ends the cycle with FileChanged; the cycle
\* after it leaves X's container alone, kills Y's, builds Y only and, when
\* that build succeeds, launches Y only.
ChangeRebuildsOnlyAffected ==
    [][/\ \A cf \in SUBSET Paths :
              (MonitorTick(cf) /\ NonIgnored = {1, 2}) =>
                  /\ cf \subseteq {OutsidePath} =>
                         /\ should_rebuild' = should_rebuild
                         /\ ~(pc' = "loop" /\ break_type' = "FileChanged")
                  /\ (2 \in cf /\ 1 \notin cf) =>
                         /\ should_rebuild' = [should_rebuild EXCEPT ![2] = TRUE]
                         /\ ~should_rebuild'[1]
                         /\ pc' = "loop" /\ break_type' = "FileChanged"
       /\ (pc = "kill_clean" /\ pc' = "build" /\ NonIgnored = {1, 2} /\ marked = {2}) =>
              container'[1] = container[1] /\ ~container'[2] /\ task' = task
       /\ OnlyMarkedImageCycled']_vars

\* C3 witness: in the second cycle, begun with only Y marked, Y has been
\* rebuilt and relaunched while X's task and container of the first cycle
\* are still running.
OnlyYRelaunched ==
    /\ NonIgnored = {1, 2}
    /\ cycle = 2
    /\ marked = {2}
    /\ cleaned = {2}
    /\ build_log = <<<<2, TRUE>>>>
    /\ started = <<2>>
    /\ pc = "monitor"
    /\ task[1] = "waiting" /\ container[1]
    /\ task[2] = "waiting" /\ container[2]

GracefulShutdown ==
    [][/\ (pc = "monitor" /\ pc' = "shutdown_sleep") =>
              /\ \A i \in ImageIds :
                     task[i] \notin {"none", "returned"} => term_pending'[i] > 0
              /\ \A i \in DOMAIN statuses :
                     /\ statuses_receivers'[i] = <<>>
                     /\ statuses_receivers[i] # <<>> =>
                            statuses'[i] = Last(statuses_receivers[i])
              /\ container' = container /\ forced' = forced
       /\ (interrupted = "monitor"
              /\ pc \in {"shutdown_sleep", "shutdown", "wait_handles"}
              /\ pc' \in {"shutdown_sleep", "shutdown", "wait_handles"}
              /\ ~deadline') =>
              /\ forced' = forced
              /\ \A i \in ImageIds : (container[i] /\ ~container'[i]) => ContainerExit(i)
       /\ ShutdownTick =>
              /\ \A i \in DOMAIN statuses :
                     /\ statuses_receivers'[i] = <<>>
                     /\ statuses_receivers[i] # <<>> =>
                            statuses'[i] = Last(statuses_receivers[i])
              /\ IF AllFinished(statuses')
                 THEN pc' = "wait_handles" /\ container' = container /\ forced' = forced
                 ELSE IF deadline
                 THEN /\ pc' = "wait_handles" /\ forced'
                      /\ \A i \in ImageIds : ~container'[i]
                 ELSE pc' = "shutdown" /\ container' = container /\ forced' = forced]_vars

\* C11 witness: an interrupt was handled in the monitor phase, every launched
\* image finished before the deadline, and the Reactor waits for the handles
\* without having force-killed anything.
GracefulShutdownCompleted ==
    /\ interrupted = "monitor"
    /\ stopping
    /\ ~deadline
    /\ ~forced
    /\ pc = "wait_handles"
    /\ started # <<>>
    /\ AllFinished(statuses)

\* C12: a second interrupt that arrives while the Reactor is in graceful
\* shutdown makes it run kill_and_clean(true) on all images at once and
\* return Stopped to launch without waiting for the handles.
SecondInterruptForcesShutdown ==
    [][(second_interrupt = "none" /\ second_interrupt' # "none") =>
           /\ forced'
           /\ \A i \in ImageIds : ~container'[i]
           /\ pc' = "loop" /\ break_type' = "Stopped"]_vars

\* C13: an image whose container process could not be spawned is never
\* reported as running: neither InProgress nor StartupCompleted is sent to
\* the Reactor or held by it as the status of that image.
SpawnFailureNotReportedRunning ==
    \A i \in DOMAIN statuses :
        task[i] = "failed" =>
            /\ statuses[i] \notin {"InProgress", "StartupCompleted"}
            /\ \A k \in DOMAIN statuses_receivers[i] :
                   statuses_receivers[i][k] \notin {"InProgress", "StartupCompleted"}

----------------------------------------------------------------------------
(* Properties of build, stated for SpecBuild *)

\* C10: build runs Image.build in insertion order, only for images that are
\* not ignored and have should_rebuild, clears should_rebuild exactly for the
\* images whose build succeeded, and runs no Image.build after a failed one:
\* without a failure every such image is built, with a failure exactly those
\* up to the failing image.
BuildContract ==
    [][pc = "build" =>
          LET log    == build_log'
              built  == {log[k][1] : k \in DOMAIN log}
              ok     == {log[k][1] : k \in {j \in DOMAIN log : log[j][2]}}
              wanted == {i \in ImageIds : ~dev_ignore_image[i] /\ should_rebuild[i]}
          IN /\ \A k \in 1..(Len(log) - 1) : log[k][1] < log[k + 1][1] /\ log[k][2]
             /\ built \subseteq wanted
             /\ \A i \in ImageIds : should_rebuild'[i] = (should_rebuild[i] /\ i \notin ok)
             /\ pc' \in {"build_wait", "prepare"}
             /\ pc' = "prepare" => built = wanted /\ ok = wanted
             /\ pc' = "build_wait" =>
                    /\ log # <<>> /\ ~Last(log)[2]
                    /\ built = {i \in wanted : i <= Last(log)[1]}]_vars

\* C10 witness: the first image built, the build of the second failed, the
\* third, marked for rebuild and not ignored, was not built and stays marked.
BuildStoppedAtFailure ==
    /\ pc = "build_wait"
    /\ build_log = <<<<1, TRUE>>, <<2, FALSE>>>>
    /\ should_rebuild = <<FALSE, TRUE, TRUE>>
    /\ ~dev_ignore_image[3]

----------------------------------------------------------------------------
(* Properties of the launch order, stated for SpecLaunch *)

\* a is started before b
StartedBefore(a, b) ==
    \E k, l \in DOMAIN started : k < l /\ started[k] = a /\ started[l] = b

\* C1: for components a, b, c that are all launched, with b.depends_on = [a]
\* and c.depends_on = [b] and a without dependencies, launch_images starts a
\* before b and b before c, whatever their insertion order.
DependencyChainOrder ==
    pc = "monitor" =>
        \A a, b, c \in NonIgnored :
            (depends_on[a] = <<>> /\ depends_on[b] = <<a>> /\ depends_on[c] = <<b>>)
                => StartedBefore(a, b) /\ StartedBefore(b, c)

----------------------------------------------------------------------------
(* Properties of the cross-compile guard, stated for SpecGuard *)

\* C14: once every guard that was created has been dropped,
\* CROSS_CONTAINER_OPTS and DOCKER_DEFAULT_PLATFORM hold exactly the values
\* (or the absence) they had before the first guard was created
GuardRestoresEnvironment ==
    (/\ \A h \in Holders : guards[h].at # "held"
     /\ \E h \in Holders : guards[h].at = "dropped")
        => env = env_before

----------------------------------------------------------------------------
(* Properties of from_product_dir, stated for SpecConstruct *)

\* the first EXPOSE line of the component's Dockerfile, if it has one
FirstExpose(k) ==
    IF HasDockerfile(stack_config[k].build_type) /\ stack_config[k].exposes # <<>>
    THEN ParseU16(stack_config[k].exposes[1])
    ELSE OptionNone

LacksPort(k) == stack_config[k].port = OptionNone

BuiltLacksPort(k) ==
    stack_config[k].build_type # "PureDockerImage" /\ LacksPort(k)

\* how many of the first k components lack a port
CountLacksPort(k) == Cardinality({j \in 1..k : LacksPort(j)})

\* how many of the first k components were given a number
CountBuiltLacksPort(k) == Cardinality({j \in 1..k : BuiltLacksPort(j)})

PortAndTargetPortTogether ==
    construct_pc = "done" =>
        \A k \in DOMAIN images :
            HasDockerfile(images[k].build_type) =>
                /\ (images[k].port = OptionNone) <=> (images[k].target_port = OptionNone)
                /\ stack_config[k].port # OptionNone =>
                      images[k].port = stack_config[k].port
                /\ stack_config[k].target_port # OptionNone =>
                      images[k].target_port = stack_config[k].target_port

----------------------------------------------------------------------------
(* Properties of a dev redirect, stated for Spec *)

\* the images of the components that a --redirect value names
Redirected ==
    {i \in ImageIds : images[i].component_name \in DOMAIN redirected_components}

\* the ServiceSpec of a component, where it has one
ServiceOf(name) == {svc \in Range(services) : svc.name = name}

\* neither built nor launched so far
NeverBuiltNorLaunched(i) ==
    /\ \A k \in DOMAIN build_log : build_log[k][1] # i
    /\ i \notin Range(started)
    /\ i \notin awaiting_launch
    /\ task[i] = "none"
    /\ ~container[i]
    /\ i \notin DOMAIN statuses

----------------------------------------------------------------------------
(* Properties of populate, stated for SpecVault *)

\* the declared secrets that are references, as <<component, secret>>
DeclaredReferences ==
    {cn \in UNION {{<<c, n>> : n \in DOMAIN definitions[c]} : c \in DOMAIN definitions} :
        is_reference(cn[1], cn[2])}

\* the declared secrets that are no references
DeclaredValues ==
    UNION {{<<c, n>> : n \in DOMAIN definitions[c]} : c \in DOMAIN definitions}
        \ DeclaredReferences

\* the vault holds a value for the secret of the component
StoredIn(v, component, secret) ==
    component \in DOMAIN v /\ secret \in DOMAIN v[component]

\* the names a declared secret is stored under
StoredNames(cn) ==
    IF definitions[cn[1]][cn[2]].kind = "KeyPair"
    THEN {cn[2] \o "_PRIVATE_KEY", cn[2] \o "_PUBLIC_KEY"}
    ELSE {cn[2]}

\* C18: after populate has returned, the vault holds for every declared
\* reference n: Ref("x.y") of a component c the value it holds for x.y
ReferenceEqualsTarget ==
    populate_pc = "Ok" =>
        \A cn \in DeclaredReferences :
            LET target == generate_secret(cn[1], cn[2])
            IN StoredIn(vault, target.component, target.secret) =>
                  /\ StoredIn(vault, cn[1], cn[2])
                  /\ vault[cn[1]][cn[2]] = vault[target.component][target.secret]

\* C19: populate returns Ok only if the second pass has resolved every
\* declared reference
UnresolvedReferenceIsFatal ==
    populate_pc = "Ok" =>
        \A cn \in DeclaredReferences : cn[2] \in DOMAIN store[cn[1]].secrets

\* C20: after populate has returned, a declared value or key pair that was in
\* the vault before is changed only if the override question for it was
\* answered yes
OverrideOnlyOnYes ==
    populate_pc = "Ok" =>
        \A cn \in DeclaredValues :
            (/\ \A name \in StoredNames(cn) : StoredIn(vault_before, cn[1], name)
             /\ \E name \in StoredNames(cn) :
                   \/ ~StoredIn(vault, cn[1], name)
                   \/ vault[cn[1]][name] # vault_before[cn[1]][name])
                => cn \in DOMAIN answers /\ answers[cn]

----------------------------------------------------------------------------
(* Properties of validate_vault, stated for SpecValidate *)

\* all <<component, secret>> that the definitions declare
Declared ==
    UNION {{<<c, n>> : n \in DOMAIN definitions[c]} : c \in DOMAIN definitions}

\* the parts of the reference's path, split at the dots
RefParts(cn) == Split(definitions[cn[1]][cn[2]].path, ".")

\* C21: validate_vault returns Ok(true) iff every declared plain secret is in
\* the vault map of its component, every declared key pair NAME has
\* NAME_PRIVATE_KEY and NAME_PUBLIC_KEY there, and every reference is of the
\* form component.name with name in the vault map of that component; and the
\* vault is the same before, during and after the call, whether it returns
\* true, false or an error
ValidateVaultContract ==
    /\ vault = vault_before
    /\ validate_pc = "Ok" =>
          (all_valid <=>
              \A cn \in Declared :
                  LET kind == definitions[cn[1]][cn[2]].kind
                  IN /\ kind = "RandomHex" => StoredIn(vault, cn[1], cn[2])
                     /\ kind = "KeyPair" =>
                           /\ StoredIn(vault, cn[1], cn[2] \o "_PRIVATE_KEY")
                           /\ StoredIn(vault, cn[1], cn[2] \o "_PUBLIC_KEY")
                     /\ kind = "Ref" =>
                           /\ Len(RefParts(cn)) = 2
                           /\ StoredIn(vault, Text(RefParts(cn)[1]), Text(RefParts(cn)[2])))

\* validate_vault has returned true on definitions with a key pair and two
\* references
ValidatedKeyPairAndReferences ==
    /\ validate_pc = "Ok"
    /\ all_valid
    /\ definitions["x"]["k"].kind = "KeyPair"
    /\ "j" \in DOMAIN definitions["x"]
    /\ definitions["y"]["k"].kind = "Ref"

----------------------------------------------------------------------------
(* Properties of the Vault implementations, stated for SpecStores *)

\* the store holds something for the component: its key in <env>.json, its
\* .env.secrets file, its 1Password item
HasStored(key) ==
    CASE backend = "file" ->
             key[2] \in DOMAIN load_secrets(files, get_vault_path(key[1], key[3]))
      [] backend = "dotenv" ->
             /\ get_env_path(key[2]) # OptionNone
             /\ Unwrap(get_env_path(key[2])) \in DOMAIN env_files
      [] backend = "1password" -> OpItem(key) \in DOMAIN op_items

\* C22: with every Vault implementation, get for a component that has no
\* stored secrets returns Ok with the empty map, never an error
GetWithoutSecretsIsEmptyMap ==
    [][\A key \in VaultKeys :
          VaultGetCall(key) /\ ~HasStored(key) => last_get'.result = Ok(NoMap)]_vars

\* the map of the last set for the key that no remove followed, the empty map
\* if there is none
LastSet(key) == IF key \in DOMAIN last_set THEN last_set[key] ELSE NoMap

\* C23: the JSON file vault returns for every product, component and
\* environment exactly the map of the last set that no remove followed (the
\* empty map without one), and a set or a remove changes the result of get
\* for no other component and no other environment
FileVaultLastSetWins ==
    /\ [](backend = "file" =>
            \A key \in VaultKeys : FileGet(files, key) = Ok(LastSet(key)))
    /\ [][backend = "file" =>
            \A key \in VaultKeys :
               (VaultRemove(key) \/ \E secrets \in SecretMaps : VaultSet(key, secrets))
               => \A other \in VaultKeys \ {key} :
                     FileGet(files', other) = FileGet(files, other)]_vars

\* the dev file holds the smaller map of c1 after a get returned it, and the
\* prod file is left as an empty object by a set and a remove
FileVaultReplacedAndRemoved ==
    /\ backend = "file"
    /\ files = Put(Put(NoMap, <<"p", "dev.json">>,
                       Put(NoMap, "c1", Put(NoMap, "k", <<"a">>))),
                   <<"p", "prod.json">>, NoMap)
    /\ last_get = [key |-> <<"p", "c1", "dev">>,
                   result |-> Ok(Put(NoMap, "k", <<"a">>))]

----------------------------------------------------------------------------
(* Properties of the PathMatcher, stated for SpecMatcher *)

\* the directories above a path
ProperAncestors(path) == {SubSeq(path, 1, k) : k \in 1..(Len(path) - 1)}

\* some pattern matches the path taken as a directory
SomePatternMatchesDir(path) ==
    \E k \in DOMAIN match_patterns : PatternMatches(match_patterns[k], path, TRUE)

\* C24: with directory-only patterns alone, a regular file none of whose
\* ancestor directories is matched by a pattern is not matched
DirectoryOnlyNeverMatchesFile ==
    \A path \in DOMAIN queried :
        /\ \A k \in DOMAIN match_patterns : match_patterns[k].is_directory_only
        /\ ~queried[path].is_dir
        /\ \A ancestor \in ProperAncestors(path) : ~SomePatternMatchesDir(ancestor)
        => ~queried[path].matched

\* the pattern matches the path or a directory above it
Concerns(pattern, path, is_dir) ==
    \/ PatternMatches(pattern, path, is_dir)
    \/ \E ancestor \in ProperAncestors(path) : PatternMatches(pattern, ancestor, TRUE)

\* the patterns of the list that match the path, by their place in the list
Concerning(path, is_dir) ==
    {k \in DOMAIN match_patterns : Concerns(match_patterns[k], path, is_dir)}

\* C25: a path is matched exactly if the last pattern of the list that
\* matches it is not a negation
LastMatchingPatternDecides ==
    \A path \in DOMAIN queried :
        LET concerning == Concerning(path, queried[path].is_dir)
        IN queried[path].matched <=>
              \E k \in concerning :
                 /\ \A j \in concerning : j <= k
                 /\ ~match_patterns[k].is_negation

\* C26: when a directory is matched, every path below it is matched
SubtreeOfMatchedDirectoryMatched ==
    \A d \in DOMAIN queried : \A p \in DOMAIN queried :
        /\ queried[d].is_dir
        /\ queried[d].matched
        /\ Len(p) > Len(d)
        /\ SubSeq(p, 1, Len(d)) = d
        => queried[p].matched

----------------------------------------------------------------------------
(* Properties of build_manifests, stated for SpecManifests *)

\* <output>/<priority>_<component>/<file> for every manifest of every
\* component that is no installation
ExpectedManifests ==
    UNION {{<<manifest_components[k].name, f>> : f \in manifest_components[k].manifests} :
             k \in {j \in DOMAIN manifest_components :
                       ~manifest_components[j].is_installation}}

\* C27: after build_manifests has returned, the output directory holds one
\* rendered file for every YAML manifest of every component with a k8s
\* directory that is no installation, and no other file: none of an earlier
\* run, none of a KubernetesInstallation component
OutputIsExactlyTheRenderedManifests ==
    manifests_pc = "returned" =>
        /\ DOMAIN output_files = ExpectedManifests
        /\ \A path \in DOMAIN output_files : output_files[path] # "stale"

\* build_manifests returned over a directory that an earlier run had filled:
\* the component api has its two manifests rendered, the installation none
ManifestsRenderedOverStaleOutput ==
    /\ manifests_pc = "returned"
    /\ k8s_encoder = "sealed"
    /\ Len(manifest_components) = 2
    /\ manifest_components[2].is_installation
    /\ manifest_components[2].manifests # {}
    /\ output_before = StaleFiles
    /\ DOMAIN output_files = {<<"1_api", f>> : f \in ManifestFiles}
    /\ output_files[<<"1_api", "secret.yaml">>] = "sealed"

----------------------------------------------------------------------------
(* Properties of the template variables, stated for SpecTemplate *)

\* the string has the form {{ NAME }}, with any blanks around the one word
IsVariableReference(text) ==
    /\ Len(text) >= 3
    /\ Head(text) = "{{"
    /\ text[Len(text)] = "}}"
    /\ Len(Trim(SubSeq(text, 2, Len(text) - 1))) = 1
    /\ Trim(SubSeq(text, 2, Len(text) - 1))[1] \notin {"{{", "}}", "/"}

\* the word between the braces
ReferencedName(text) == Trim(SubSeq(text, 2, Len(text) - 1))

\* the string values of the parsed component, by the key they were given under
ParsedValue(key) ==
    CASE key = "location" -> component_spec.build_type.location
      [] key = "component_name" -> component_spec.component_name
      [] key = "mount_point" -> Unwrap(component_spec.mount_point)

\* C28: once from_yaml is over, every string value of the entry of the form
\* {{ NAME }} is replaced by the value of NAME in the section of the active
\* environment, every other string value is kept as written, and parsing
\* fails exactly when a referenced NAME is not defined
TemplateVariablesSubstituted ==
    from_yaml_pc \in {"parsed", "panic"} =>
        LET undefined ==
               {key \in DOMAIN yaml_section :
                   /\ IsVariableReference(yaml_section[key])
                   /\ VariablesGet(active_environment, ReferencedName(yaml_section[key]))
                         = OptionNone}
        IN /\ from_yaml_pc = "panic" <=> undefined # {}
           /\ from_yaml_pc = "parsed" =>
                 \A key \in DOMAIN yaml_section :
                    ParsedValue(key) =
                       IF IsVariableReference(yaml_section[key])
                       THEN VariablesFile[active_environment][ReferencedName(yaml_section[key])]
                       ELSE yaml_section[key]

----------------------------------------------------------------------------
(* Properties of test_if_siginificant_change, stated for SpecChange *)

\* the path is in the context of the image: a watch pattern matches it, or it
\* lies under the build context or under the directory of the Dockerfile
InContextOf(image, path) ==
    \/ \E watch \in image.watch : PathMatcherMatches(watch, path, FALSE)
    \/ \E dockerfile_path \in image.docker_file :
          LET dockerfile_dir == SubSeq(dockerfile_path, 1, Len(dockerfile_path) - 1)
              context ==
                 IF image.context_dir = OptionNone THEN dockerfile_dir
                 ELSE Canonicalize(dockerfile_dir \o Unwrap(image.context_dir))
          IN StartsWith(path, context) \/ StartsWith(path, dockerfile_dir)

\* the images that are not ignored in dev mode and have a changed path in
\* their context
ImagesWithChange(paths) ==
    {k \in DOMAIN change_images :
        /\ ~change_images[k].should_ignore_in_devmode
        /\ \E path \in paths : InContextOf(change_images[k], path)}

\* C29: test_if_siginificant_change returns true exactly if some image that
\* is not ignored in dev mode has a changed path in its context; it sets
\* should_rebuild of exactly those images, leaves the should_rebuild of every
\* other image as it was, and leaves changed_files empty
SignificantChangeContract ==
    [][TestIfSignificantChange =>
          /\ significant_change' = Some(ImagesWithChange(pending_changes) # {})
          /\ \A k \in DOMAIN change_images :
                change_images'[k].should_rebuild =
                   IF k \in ImagesWithChange(pending_changes) THEN TRUE
                   ELSE change_images[k].should_rebuild
          /\ pending_changes' = {}]_vars

\* a test that returned true for the change of a/x and b/y: the pulled image
\* is marked through its watch pattern alone, the built image is ignored in
\* dev mode and keeps its mark unset
SignificantChangeThroughWatch ==
    /\ significant_change = Some(TRUE)
    /\ tested_files = {<<"a", "x">>, <<"b", "y">>}
    /\ pending_changes = {}
    /\ change_images[1].should_ignore_in_devmode
    /\ ~change_images[1].should_rebuild
    /\ change_images[2].watch # OptionNone
    /\ change_images[2].should_rebuild

----------------------------------------------------------------------------
(* Property of the status map at the end of launch, stated for Spec *)

\* the entry shows that the child of the image was spawned: StartupCompleted,
\* Terminate and Finished are sent only after a successful spawn
ChildWasSpawned(i) == statuses[i] \notin {"Awaiting", "InProgress"}

\* C30: every image task sends Finished when its child has exited, so that
\* the entry of every image whose child has exited ends as Finished. Once
\* launch has returned and every task has returned nothing changes the
\* status map any more, so what it will eventually hold is what it holds
StatusesEndFinished ==
    /\ pc = "done"
    /\ \A i \in DOMAIN statuses : task[i] = "returned" /\ ~container[i]
    => \A i \in DOMAIN statuses : ChildWasSpawned(i) => statuses[i] = "Finished"

----------------------------------------------------------------------------
(* Properties of the image task's statuses, stated for Spec *)

\* the statuses of image i that its task has sent and the Reactor holds
EmittedStatuses(i) == {statuses[i]} \cup Range(statuses_receivers[i])

\* C31: StartupCompleted is emitted for a launched image only after at least
\* one line of its container's stdout or stderr has been read: an image that
\* has produced no output is never reported as StartupCompleted
StartupCompletedAfterOutput ==
    \A i \in DOMAIN statuses :
        "StartupCompleted" \in EmittedStatuses(i) => has_output[i]

\* C32: an image task returns only after its child has exited: after the
\* terminate signal (SIGTERM sent, task "terminating") it goes on only when
\* the child is gone, and a task whose child was spawned never returns while
\* the child is running
TaskReturnsAfterChildExit ==
    [][\A i \in ImageIds :
          /\ task[i] = "terminating" /\ task'[i] \in {"finishing", "returned"}
             => ~container[i]
          /\ task[i] \notin {"returned", "failed"} /\ task'[i] = "returned"
             => ~container[i] /\ ~container'[i]]_vars

\* a task that was told to terminate, awaited its child, sent Finished after
\* Terminate and returned
TaskReturnedAfterTerminate ==
    \E i \in DOMAIN statuses_receivers :
        LET r == statuses_receivers[i]
        IN /\ task[i] = "returned"
           /\ ~container[i]
           /\ Len(r) >= 2
           /\ r[Len(r) - 1] = "Terminate"
           /\ r[Len(r)] = "Finished"

----------------------------------------------------------------------------
(* Properties of the end of launch, stated for Spec *)

\* C33: when launch has returned, no container started by an image task of
\* this launch call is running and no image task is still executing
LaunchReturnsClean ==
    pc = "done" =>
        \A i \in ImageIds : task[i] \in {"none", "returned"} /\ ~container[i]

\* C34: within one supervisor cycle an entry of the status map that is
\* Finished stays Finished until launch_images resets the maps: no later
\* status of the same task replaces it
FinishedStaysFinished ==
    [][\A i \in DOMAIN statuses :
          /\ statuses[i] = "Finished"
          /\ ~(pc = "launch" /\ pc' = "monitor")
          => i \in DOMAIN statuses' /\ statuses'[i] = "Finished"]_vars

----------------------------------------------------------------------------
(* Property of the shutdown, stated for SpecShutdownFair *)

\* C35: after an interrupt was received in the monitor phase, launch
\* eventually returns
InterruptLeadsToReturn == (interrupted = "monitor") ~> (pc = "done")

----------------------------------------------------------------------------
(* Property of kill_and_clean(false), stated for Spec *)

\* C36: the kill_and_clean(false) at the head of a supervisor cycle never
\* kills or removes the container of a dev-ignored (redirected) image
CleanSparesDevIgnored ==
    \A i \in cleaned : ~dev_ignore_image[i]

----------------------------------------------------------------------------
(* Property of the ports, stated for SpecConstruct *)

\* component k got its port from next_port
AutoAssigned(k) ==
    /\ stack_config[k].build_type # "PureDockerImage"
    /\ stack_config[k].port = OptionNone

\* image k is published: launch passes -p port:target_port
Published(k) == images[k].port # OptionNone /\ images[k].target_port # OptionNone

\* C37: after from_product_dir no auto-assigned published port equals the
\* published port of another image, be that one auto-assigned, given in the
\* spec, or that of a PureDockerImage component
AssignedPortsDistinct ==
    construct_pc = "done" =>
        \A a, b \in DOMAIN images :
            a # b /\ AutoAssigned(a) /\ Published(a) /\ Published(b)
                => images[a].port # images[b].port

----------------------------------------------------------------------------
(* Property of populate's effect on the vault, stated for SpecVault *)

\* the vault entries of component c that its declared secrets stand for: the
\* two halves for a key pair, the name itself otherwise
TouchedNames(c) ==
    IF c \notin DOMAIN definitions THEN {}
    ELSE UNION {IF definitions[c][n].kind = "KeyPair"
                THEN {n \o "_PRIVATE_KEY", n \o "_PUBLIC_KEY"}
                ELSE {n} : n \in DOMAIN definitions[c]}

\* C38: populate changes only the vault entries of declared secrets: every
\* entry stored under a name that is not declared for its component is
\* still there, with its value, when populate has returned
UndeclaredEntriesKept ==
    populate_pc = "Ok" =>
        \A c \in DOMAIN vault_before :
            \A n \in DOMAIN vault_before[c] \ TouchedNames(c) :
                /\ c \in DOMAIN vault
                /\ n \in DOMAIN vault[c]
                /\ vault[c][n] = vault_before[c][n]

----------------------------------------------------------------------------
(* Property of the watcher, stated for SpecWatchFair *)

\* an event for the path is in the watcher's channel, and the path is not
\* git-ignored and lies in the context of image k, which is not ignored
EventConcerns(k, path) ==
    /\ path \in {p \in watch_rx : ~PathMatcherMatches(WatchGitignore, p, FALSE)}
    /\ ~change_images[k].should_ignore_in_devmode
    /\ InContextOf(change_images[k], path)

\* C39: every creation, modification or deletion of a file that is not
\* git-ignored and lies in the build context of an image that is not ignored,
\* once the watcher has reported it, eventually sets should_rebuild of that
\* image: no such event is dropped
EventLeadsToRebuild ==
    \A k \in {1, 2} : \A path \in EventFiles :
        EventConcerns(k, path) ~> change_images[k].should_rebuild

====
